---- MODULE Spec2Model ----
(***************************************************************************)
(* Verification model of the GPS interference map client                   *)
(* (NoamSkypath/demo-gps-layer): the jamming and spoofing layer            *)
(* transformers and the settings/refresh coordinator (class App).          *)
(*                                                                         *)
(* Numbers: ratio_bad is a fraction; it is modelled exactly as a rational  *)
(* [num, den] (the code uses IEEE doubles; rounding is not modelled).      *)
(* Time is in milliseconds.                                                *)
(***************************************************************************)
EXTENDS Integers, Sequences, FiniteSets, TLC

VARIABLES
  \* ---- class App (src/js/map-manager.js:328) ----
  currentSettings,        \* the single settings record
  isLoading,              \* single-flight flag
  refreshDebounceTimer,   \* remaining ms of the pending debounce timeout, or NoTimer
  autoRefreshInterval,    \* TRUE once startAutoRefresh has installed the interval
  phase,                  \* position of App.init
  inflight,               \* refreshes suspended at their await, oldest first
  currentJsonData,        \* the stored result (result.data)
  statsPanel,             \* stats panel: stats and api-url of the last result
  jsonTree,               \* collection rendered in the JSON tree
  tableRows,              \* rows of the table, as displayed
  tableSortColumn,
  tableSortDirection,
  refreshButtonDisabled,
  \* ---- class MapManager / layers ----
  currentLayerType,
  jammingLayer,           \* [currentData, metadata, source, visible]
  spoofingLayer,          \* [currentMode, currentData, metadata, source, visible]
  \* ---- observation (history) variables ----
  sinceChange,            \* ms since the last setting change (meaningful when burst > 0)
  burst,                  \* number of changes in the current burst
  debounceCalls,          \* refreshData calls made by the debounce timer since the last change
  snapshot,               \* view state when the refresh in flight started
  shown,                  \* the settings the stored result was fetched with
  missed,                 \* refreshes dropped or failed since the last setting change
  \* ---- direct application of a layer operation to drawn inputs ----
  arg,
  ret,
  \* ---- class APIClient (src/js/api-client.js): the HTTP attempts of a call ----
  fetches,                \* requests handed to fetch(), oldest first
  \* ---- the proxy process (src/proxy-server.js) ----
  envFile,                \* the .env file ([lines]), or Null when there is none
  ENV,                    \* the secrets as loaded at start
  proxyProcess,           \* "starting", "listening" or "exited"
  exchanges               \* client requests received, each with what became of it

appVars == <<currentSettings, isLoading, refreshDebounceTimer, autoRefreshInterval,
             phase, inflight, currentJsonData, statsPanel, jsonTree, tableRows,
             tableSortColumn, tableSortDirection, refreshButtonDisabled>>
mapVars == <<currentLayerType, jammingLayer, spoofingLayer>>
obsVars == <<sinceChange, burst, debounceCalls, snapshot, shown, missed>>
opVars  == <<arg, ret>>
netVars == <<fetches>>
proxyVars == <<envFile, ENV, proxyProcess, exchanges>>
vars == <<appVars, mapVars, obsVars, opVars, netVars, proxyVars>>

----------------------------------------------------------------------------
(* Bounds of the model *)

MaxLen == 3          \* longest upstream feature sequence drawn for the layer operations
TickMs == 1000       \* largest step of the clock
MaxBurst == 3        \* the burst counter saturates here

----------------------------------------------------------------------------
(* Values *)

Null == [null |-> TRUE]                 \* JavaScript null / undefined object
NoTimer == -1                           \* refreshDebounceTimer = null: no timeout pending
NoColumn == "(none)"                    \* tableSortColumn = null

Rat(n, d) == [num |-> n, den |-> d]
RatLt(a, b) == a.num * b.den < b.num * a.den
RatGe(a, b) == ~RatLt(a, b)
RatEq(a, b) == a.num * b.den = b.num * a.den
RatAdd(a, b) == IF a.den = b.den THEN Rat(a.num + b.num, a.den)
                ELSE Rat(a.num * b.den + b.num * a.den, a.den * b.den)
RatDiv(a, n) == Rat(a.num, a.den * n)
Zero == Rat(0, 100)

Buckets == {"zero", "low", "high"}
BucketOrder == <<"zero", "low", "high">>   \* key order of severityGroups

FeatureCollection(fs) == [type |-> "FeatureCollection", features |-> fs]
EmptyCollection == FeatureCollection(<<>>)

Has(f, k) == k \in DOMAIN f.properties

\* an option with its default (destructuring default, or `options.k || default`)
Opt(options, k, default) == IF k \in DOMAIN options THEN options[k] ELSE default

\* feature.properties.ratio_bad || 0
RatioBadOr0(f) == IF Has(f, "ratio_bad") THEN f.properties.ratio_bad ELSE Zero

----------------------------------------------------------------------------
(* JammingLayer: pure operations *)

T001 == Rat(1, 100)
T01  == Rat(10, 100)
\* seeded fault: the stats threshold confused with the "high" bucket threshold
T03_bucket == Rat(10, 100)
T03  == Rat(30, 100)

\* seeded fault: the "low" test without its lower bound
filterBySeverity_noLowerBound(geojson, severityLevels) ==
  IF severityLevels = {} THEN geojson
  ELSE LET keep(feature) ==
             LET ratioBad == RatioBadOr0(feature) IN
               \/ "zero" \in severityLevels /\ RatLt(ratioBad, T001)
               \/ "low" \in severityLevels /\ RatLt(ratioBad, T01)
               \/ "high" \in severityLevels /\ RatGe(ratioBad, T01)
       IN [geojson EXCEPT !.features = SelectSeq(geojson.features, keep)]

filterBySeverity(geojson, severityLevels) ==
  IF severityLevels = {} THEN geojson
  ELSE LET keep(feature) ==
             LET ratioBad == RatioBadOr0(feature) IN
               \/ "zero" \in severityLevels /\ RatLt(ratioBad, T001)
               \/ "low" \in severityLevels /\ RatGe(ratioBad, T001) /\ RatLt(ratioBad, T01)
               \/ "high" \in severityLevels /\ RatGe(ratioBad, T01)
       IN [geojson EXCEPT !.features = SelectSeq(geojson.features, keep)]

\* seeded fault: the boundaries counted to the bucket below
getSeverityLevel_inclusive(ratioBad) ==
  IF ~RatLt(T001, ratioBad) THEN "zero"
  ELSE IF ~RatLt(T01, ratioBad) THEN "low"
  ELSE "high"

getSeverityLevel(ratioBad) ==
  IF RatLt(ratioBad, T001) THEN "zero"
  ELSE IF RatLt(ratioBad, T01) THEN "low"
  ELSE "high"

\* CONFIG.JAMMING.COLOR_SCALE (src/js/config.js)
COLOR_SCALE ==
  << [threshold |-> Rat(0, 100), color |-> "#E5E7EB", label |-> "Zero (0%-1%)"],
     [threshold |-> Rat(1, 100), color |-> "#FCD34D", label |-> "Low (1%-10%)"],
     [threshold |-> Rat(10, 100), color |-> "#DC2626", label |-> "High (10%-100%)"] >>

\* seeded fault: the threshold itself left to the bucket below
getColorForRatio_strict(ratio) ==
  LET hits == { i \in 1..Len(COLOR_SCALE) : RatLt(COLOR_SCALE[i].threshold, ratio) }
  IN IF hits = {} THEN COLOR_SCALE[1].color
     ELSE COLOR_SCALE[CHOOSE i \in hits : \A j \in hits : j <= i].color

\* getColorForRatio: the entry of the highest index whose threshold the
\* ratio reaches (the loop runs from the last entry down), else the first
getColorForRatio(ratio) ==
  LET hits == { i \in 1..Len(COLOR_SCALE) : RatGe(ratio, COLOR_SCALE[i].threshold) }
  IN IF hits = {} THEN COLOR_SCALE[1].color
     ELSE COLOR_SCALE[CHOOSE i \in hits : \A j \in hits : j <= i].color

RECURSIVE SumRatio(_)
SumRatio(features) ==
  IF features = <<>> THEN Zero
  ELSE RatAdd(SumRatio(SubSeq(features, 1, Len(features) - 1)),
              RatioBadOr0(features[Len(features)]))

RECURSIVE UnionGeometry(_)
UnionGeometry(features) ==
  IF features = <<>> THEN {}
  ELSE UnionGeometry(SubSeq(features, 1, Len(features) - 1))
         \cup features[Len(features)].geometry

\* seeded fault: the sum divided by one feature too few
avgRatioBad_offByOne(features) == RatDiv(SumRatio(features), Len(features) - 1)

avgRatioBad(features) == RatDiv(SumRatio(features), Len(features))

\* seeded fault: a group whose union throws is dropped
UnionGroup_dropOnThrow(severity, features, unionThrows) ==
  IF features = <<>> THEN <<>>
  ELSE IF Len(features) = 1 THEN <<features[1]>>
  ELSE IF severity \in unionThrows THEN <<>>
  ELSE << [type |-> "Feature",
           geometry |-> UnionGeometry(features),
           properties |->
              ("ratio_bad" :> avgRatioBad(features)
               @@ "severity_level" :> severity
               @@ "unioned_count" :> Len(features)
               @@ "unioned" :> TRUE
               @@ features[1].properties)] >>

\* what one severity group contributes to unionedFeatures
UnionGroup(severity, features, unionThrows) ==
  IF features = <<>> THEN <<>>
  ELSE IF Len(features) = 1 THEN <<features[1]>>
  ELSE IF severity \in unionThrows THEN features
  ELSE << [type |-> "Feature",
           geometry |-> UnionGeometry(features),
           properties |->
              ("ratio_bad" :> avgRatioBad(features)
               @@ "severity_level" :> severity
               @@ "unioned_count" :> Len(features)
               @@ "unioned" :> TRUE
               @@ features[1].properties)] >>

\* unionThrows: the severity groups for which turf.union throws;
\* turfLoaded: typeof turf !== 'undefined'
unionBySeverity(geojson, turfLoaded, unionThrows) ==
  IF geojson = Null \/ geojson.features = <<>> THEN geojson
  ELSE IF ~turfLoaded THEN geojson
  ELSE LET group(severity) ==
             LET inGroup(feature) == getSeverityLevel(RatioBadOr0(feature)) = severity
             IN SelectSeq(geojson.features, inGroup)
       IN FeatureCollection(
            UnionGroup(BucketOrder[1], group(BucketOrder[1]), unionThrows)
            \o UnionGroup(BucketOrder[2], group(BucketOrder[2]), unionThrows)
            \o UnionGroup(BucketOrder[3], group(BucketOrder[3]), unionThrows))

RECURSIVE SumUniqueAc(_)
SumUniqueAc(features) ==
  IF features = <<>> THEN 0
  ELSE LET props == features[Len(features)].properties
           rest == SumUniqueAc(SubSeq(features, 1, Len(features) - 1))
       IN IF "n_unique_ac" \in DOMAIN props /\ props.n_unique_ac # 0
          THEN rest + props.n_unique_ac ELSE rest

RECURSIVE CountHighSeverity(_)
CountHighSeverity(features) ==
  IF features = <<>> THEN 0
  ELSE LET props == features[Len(features)].properties
           rest == CountHighSeverity(SubSeq(features, 1, Len(features) - 1))
       IN IF "ratio_bad" \in DOMAIN props /\ RatGe(props.ratio_bad, T03)
          THEN rest + 1 ELSE rest

\* seeded fault: totalCells counts only the cells that saw an aircraft
JammingLayer_calculateStats_seenOnly(geojson, dataSource) ==
  IF geojson = Null
  THEN [totalCells |-> 0, uniqueAircraft |-> 0, highSeverityCells |-> 0]
  ELSE [totalCells |-> Cardinality({ i \in 1..Len(geojson.features) :
                                       /\ "n_unique_ac" \in DOMAIN geojson.features[i].properties
                                       /\ geojson.features[i].properties.n_unique_ac > 0 }),
        uniqueAircraft |-> IF dataSource = "jamming/coverage" THEN 0
                           ELSE SumUniqueAc(geojson.features),
        highSeverityCells |-> IF dataSource = "jamming/coverage" THEN 0
                              ELSE CountHighSeverity(geojson.features)]

\* JammingLayer.calculateStats
JammingLayer_calculateStats(geojson, dataSource) ==
  IF geojson = Null
  THEN [totalCells |-> 0, uniqueAircraft |-> 0, highSeverityCells |-> 0]
  ELSE IF dataSource = "jamming/coverage"
  THEN [totalCells |-> Len(geojson.features), uniqueAircraft |-> 0,
        highSeverityCells |-> 0]
  ELSE [totalCells |-> Len(geojson.features),
        uniqueAircraft |-> SumUniqueAc(geojson.features),
        highSeverityCells |-> CountHighSeverity(geojson.features)]

\* seeded fault: the severity filter applied whatever the data source
JammingLayer_loadData_filterAll(layer, dataSource, severityLevels, unionEnabled, response, turfLoaded, unionThrows) ==
  LET filtered == filterBySeverity(response.data, severityLevels)
      filteredData == IF dataSource = "jamming/agg" /\ unionEnabled
                      THEN unionBySeverity(filtered, turfLoaded, unionThrows)
                      ELSE filtered
  IN [layer |-> [layer EXCEPT !.currentData = filteredData,
                              !.metadata = response.metadata,
                              !.source = filteredData],
      result |-> [data |-> filteredData,
                  metadata |-> response.metadata,
                  stats |-> JammingLayer_calculateStats(filteredData, dataSource)]]

\* JammingLayer.loadData after its await has resolved with `response`:
\* the new layer fields and the returned result.  dataSource and
\* severityLevels were read before the await, unionEnabled
\* (options.unionBySeverity === true) is read after it.
JammingLayer_loadData(layer, dataSource, severityLevels, unionEnabled, response, turfLoaded, unionThrows) ==
  LET filtered == IF dataSource = "jamming/agg"
                  THEN filterBySeverity(response.data, severityLevels)
                  ELSE response.data
      filteredData == IF dataSource = "jamming/agg" /\ unionEnabled
                      THEN unionBySeverity(filtered, turfLoaded, unionThrows)
                      ELSE filtered
  IN [layer |-> [layer EXCEPT !.currentData = filteredData,
                              !.metadata = response.metadata,
                              !.source = filteredData],
      result |-> [data |-> filteredData,
                  metadata |-> response.metadata,
                  stats |-> JammingLayer_calculateStats(filteredData, dataSource)]]

----------------------------------------------------------------------------
(* SpoofingLayer: pure operations *)

RECURSIVE SumCount(_)
SumCount(features) ==
  IF features = <<>> THEN 0
  ELSE LET props == features[Len(features)].properties
           rest == SumCount(SubSeq(features, 1, Len(features) - 1))
       IN IF "count" \in DOMAIN props THEN rest + props.count ELSE rest

RECURSIVE CountHighCount(_)
CountHighCount(features) ==
  IF features = <<>> THEN 0
  ELSE LET props == features[Len(features)].properties
           rest == CountHighCount(SubSeq(features, 1, Len(features) - 1))
       IN IF "count" \in DOMAIN props /\ props.count >= 10 THEN rest + 1 ELSE rest

\* the Set built by forEach/add over the truthy values of property k
DistinctValues(features, k) ==
  { features[i].properties[k] :
      i \in { j \in 1..Len(features) : k \in DOMAIN features[j].properties } }

SpoofingLayer_calculateStats(geojson, currentMode) ==
  IF geojson = Null
  THEN [totalCells |-> 0, uniqueAircraft |-> 0, highSeverityCells |-> 0]
  ELSE IF currentMode = "h3"
  THEN [totalCells |-> Len(geojson.features),
        totalAffected |-> SumCount(geojson.features),
        highCountCells |-> CountHighCount(geojson.features)]
  ELSE [totalCells |-> Len(geojson.features),
        uniqueAircraft |-> Cardinality(DistinctValues(geojson.features, "icao24")),
        highSeverityCells |-> Cardinality(DistinctValues(geojson.features, "flight_id"))]

\* SpoofingLayer.loadData before its await: the mode follows the selected
\* data source
SpoofingLayer_loadData_start(layer, options) ==
  [layer EXCEPT !.currentMode = IF Opt(options, "dataSource", "") = "spoofing/h3"
                                THEN "h3" ELSE "agg"]

\* seeded fault: the density grid left out of the rendered collection
mergedFeatures_aggOnly(aggResponse, h3Response) == aggResponse.data.features

\* [...aggResponse.data.features, ...h3Response.data.features]
mergedFeatures(aggResponse, h3Response) ==
  aggResponse.data.features \o h3Response.data.features

\* seeded fault: the stats computed from the rendered (merged) collection
statsData_merged(isH3, aggResponse, h3Response) ==
  FeatureCollection(aggResponse.data.features \o h3Response.data.features)

\* const statsData = isH3 ? h3Response.data : aggResponse.data
statsData(isH3, aggResponse, h3Response) ==
  IF isH3 THEN h3Response.data ELSE aggResponse.data

\* SpoofingLayer.loadData after its await(s): `responses` maps each call
\* issued to its response.
SpoofingLayer_loadData(layer, isH3, showBoth, responses) ==
  IF showBoth
  THEN LET aggResponse == responses["getSpoofingData"]
           h3Response == responses["getSpoofingH3Data"]
           merged == FeatureCollection(mergedFeatures(aggResponse, h3Response))
           metadata == IF isH3 THEN h3Response.metadata ELSE aggResponse.metadata
       IN [layer |-> [layer EXCEPT !.currentData = merged,
                                   !.metadata = metadata,
                                   !.source = merged],
           result |-> [data |-> merged,
                       metadata |-> metadata,
                       stats |-> SpoofingLayer_calculateStats(
                                   statsData(isH3, aggResponse, h3Response),
                                   layer.currentMode)]]
  ELSE LET response == IF isH3 THEN responses["getSpoofingH3Data"]
                                   ELSE responses["getSpoofingData"]
       IN [layer |-> [layer EXCEPT !.currentData = response.data,
                                   !.metadata = response.metadata,
                                   !.source = response.data],
           result |-> [data |-> response.data,
                       metadata |-> response.metadata,
                       stats |-> SpoofingLayer_calculateStats(response.data,
                                                              layer.currentMode)]]

----------------------------------------------------------------------------
(* Objects as constructed *)

NewJammingLayer == [currentData |-> Null, metadata |-> Null,
                    source |-> EmptyCollection, visible |-> TRUE]
NewSpoofingLayer == [currentMode |-> "agg", currentData |-> Null, metadata |-> Null,
                     source |-> EmptyCollection, visible |-> TRUE]

DEFAULT_LOOKBACK_HOURS == 24
DEFAULT_N_OBS_MIN == 5
DEBOUNCE_DELAY == 2000

\* this.currentSettings as set by the App constructor
DefaultSettings ==
  [dataSource |-> "jamming/agg",
   lookback_hours |-> DEFAULT_LOOKBACK_HOURS,
   altitudes |-> "FL100-FL450",
   altitude_summed |-> FALSE,
   hours_summed |-> TRUE,
   n_obs_min |-> DEFAULT_N_OBS_MIN,
   grouped |-> FALSE,
   full_output |-> FALSE,
   max_ratio_bad |-> Rat(5, 100),
   max_n_bad |-> 3,
   show_no_coverage |-> FALSE,
   resolution |-> 3,
   coordinates_source |-> "interpolated",
   max_time_diff_before_sec |-> 600,
   max_time_diff_after_sec |-> 600,
   showBothSpoofingLayers |-> FALSE,
   spoofingSegments |-> {},
   jammingSeverityLevels |-> {}]

\* state after `new App()`: no map manager, no layers yet
InitApp ==
  /\ currentSettings = DefaultSettings
  /\ isLoading = FALSE
  /\ refreshDebounceTimer = NoTimer
  /\ autoRefreshInterval = FALSE
  /\ phase = "constructed"
  /\ inflight = <<>>
  /\ currentJsonData = Null
  /\ statsPanel = Null
  /\ jsonTree = Null
  /\ tableRows = <<>>
  /\ tableSortColumn = NoColumn
  /\ tableSortDirection = "asc"
  /\ refreshButtonDisabled = FALSE
  /\ currentLayerType = "jamming"
  /\ jammingLayer = Null
  /\ spoofingLayer = Null
  /\ sinceChange = 0
  /\ burst = 0
  /\ debounceCalls = 0
  /\ snapshot = Null
  /\ shown = Null
  /\ missed = {}

\* no HTTP attempt made, the proxy process not started
Idle ==
  /\ fetches = <<>>
  /\ envFile = Null
  /\ ENV = Null
  /\ proxyProcess = "notStarted"
  /\ exchanges = <<>>

----------------------------------------------------------------------------
(* Upstream data drawn for the layer operations *)

Feature(id, props) ==
  [type |-> "Feature", id |-> id, geometry |-> {id}, properties |-> props]

Hex1 == Feature(1, "ratio_bad" :> Rat(2, 100)  @@ "n_unique_ac" :> 3)
Hex2 == Feature(2, "ratio_bad" :> Rat(12, 100) @@ "n_unique_ac" :> 5)
Hex3 == Feature(3, "ratio_bad" :> Rat(40, 100) @@ "n_unique_ac" :> 2)
Hex4 == Feature(4, "coverage" :> "none")

JammingFeatures ==
  { Hex1, Hex2, Hex3, Hex4,
    Feature(5, "ratio_bad" :> Rat(1, 100)   @@ "n_unique_ac" :> 0),
    Feature(6, "ratio_bad" :> Rat(10, 100)),
    Feature(7, "ratio_bad" :> Rat(30, 100)  @@ "n_unique_ac" :> 1) }

SeqsUpTo(S, n) == UNION { [1..k -> S] : k \in 0..n }

\* a response with two severity groups of two features each, interleaved
TwoGroups ==
  FeatureCollection(<<Hex1, Hex2,
                      Feature(5, "ratio_bad" :> Rat(1, 100) @@ "n_unique_ac" :> 0), Hex3>>)

JammingCollections ==
  { FeatureCollection(fs) : fs \in SeqsUpTo(JammingFeatures, MaxLen) } \cup {TwoGroups}

OkResponse(data, url) ==
  [ok |-> TRUE, data |-> data, metadata |-> [status |-> 200, url |-> url]]
FailedResponse == [ok |-> FALSE]

----------------------------------------------------------------------------
(* SpecOps: one jamming-layer operation applied to drawn inputs *)

FilterArgs ==
  { [op |-> "filterBySeverity", geojson |-> c, severityLevels |-> l] :
      c \in JammingCollections, l \in SUBSET Buckets }

\* without Turf.js no union is attempted, so none can throw
UnionArgs ==
  { [op |-> "unionBySeverity", geojson |-> c, turfLoaded |-> t, unionThrows |-> x] :
      c \in JammingCollections,
      <<t, x>> \in ({TRUE} \X SUBSET Buckets) \cup {<<FALSE, {}>>} }

\* a coverage load is drawn with and without the options it ignores; an
\* aggregate load with every bucket selection, without union or with a union
\* that succeeds or throws in the "high" bucket
LoadOptions ==
  { <<"jamming/coverage", l, u, {}>> : l \in {{}, {"high"}}, u \in BOOLEAN }
    \cup { <<"jamming/agg", l, ux[1], ux[2]>> :
             l \in SUBSET Buckets,
             ux \in {<<FALSE, {}>>, <<TRUE, {}>>, <<TRUE, {"high"}>>} }

LoadArgs ==
  { [op |-> "loadData", dataSource |-> o[1], severityLevels |-> o[2],
     unionEnabled |-> o[3], response |-> r, turfLoaded |-> TRUE, unionThrows |-> o[4]] :
      o \in LoadOptions,
      r \in {OkResponse(c, "url") : c \in JammingCollections} \cup {FailedResponse} }

\* ratio_bad values at, next to and between the bucket boundaries
Ratios == { Rat(n, 1000) : n \in {0, 1, 9, 10, 11, 50, 99, 100, 101, 300, 999, 1000} }

ClassifyArgs == { [op |-> "classify", ratio |-> r] : r \in Ratios }

InitOps ==
  /\ InitApp
  /\ Idle
  /\ arg \in FilterArgs \cup UnionArgs \cup LoadArgs \cup ClassifyArgs
  /\ ret = Null

OpFilterBySeverity ==
  /\ arg.op = "filterBySeverity" /\ ret = Null
  /\ ret' = [value |-> filterBySeverity(arg.geojson, arg.severityLevels)]
  /\ UNCHANGED <<netVars, proxyVars, appVars, mapVars, obsVars, arg>>

OpUnionBySeverity ==
  /\ arg.op = "unionBySeverity" /\ ret = Null
  /\ ret' = [value |-> unionBySeverity(arg.geojson, arg.turfLoaded, arg.unionThrows)]
  /\ UNCHANGED <<netVars, proxyVars, appVars, mapVars, obsVars, arg>>

\* JammingLayer.loadData on a freshly constructed layer
OpLoadData ==
  /\ arg.op = "loadData" /\ ret = Null
  /\ IF arg.response.ok
     THEN LET r == JammingLayer_loadData(NewJammingLayer, arg.dataSource,
                                         arg.severityLevels, arg.unionEnabled,
                                         arg.response, arg.turfLoaded, arg.unionThrows)
          IN /\ jammingLayer' = r.layer
             /\ ret' = [value |-> r.result]
     ELSE /\ jammingLayer' = NewJammingLayer
          /\ ret' = [thrown |-> TRUE]
  /\ UNCHANGED <<netVars, proxyVars, appVars, currentLayerType, spoofingLayer, obsVars, arg>>

\* the three places that assign a severity to one ratio_bad value:
\* getSeverityLevel, the range tests of filterBySeverity (one bucket
\* requested at a time) and the colour scale lookup
OpClassify ==
  /\ arg.op = "classify" /\ ret = Null
  /\ ret' = [level |-> getSeverityLevel(arg.ratio),
             kept |-> { b \in Buckets :
                          filterBySeverity(
                            FeatureCollection(<<Feature(0, "ratio_bad" :> arg.ratio)>>),
                            {b}).features # <<>> },
             color |-> getColorForRatio(arg.ratio)]
  /\ UNCHANGED <<netVars, proxyVars, appVars, mapVars, obsVars, arg>>

NextOps == OpFilterBySeverity \/ OpUnionBySeverity \/ OpLoadData \/ OpClassify

SpecOps == InitOps /\ [][NextOps]_vars

----------------------------------------------------------------------------
(* Properties of the jamming-layer operations (checked under SpecOps) *)

\* ratio_bad of a feature, 0 when the property is absent
RatioOf(f) ==
  IF "ratio_bad" \in DOMAIN f.properties THEN f.properties.ratio_bad ELSE Rat(0, 1)

\* the documented bucket ranges: zero [0, 0.01), low [0.01, 0.1), high [0.1, 1]
InBucket(r, b) ==
  CASE b = "zero" -> RatGe(r, Rat(0, 1)) /\ RatLt(r, Rat(1, 100))
    [] b = "low"  -> RatGe(r, Rat(1, 100)) /\ RatLt(r, Rat(1, 10))
    [] b = "high" -> RatGe(r, Rat(1, 10)) /\ ~RatLt(Rat(1, 1), r)

SeverityGroup(fs, b) ==
  LET member(f) == InBucket(RatioOf(f), b) IN SelectSeq(fs, member)

RECURSIVE RatioTotal(_)
RatioTotal(fs) ==
  IF fs = <<>> THEN Rat(0, 1) ELSE RatAdd(RatioOf(Head(fs)), RatioTotal(Tail(fs)))

RECURSIVE AircraftTotal(_)
AircraftTotal(fs) ==
  IF fs = <<>> THEN 0
  ELSE (IF "n_unique_ac" \in DOMAIN Head(fs).properties
        THEN Head(fs).properties.n_unique_ac ELSE 0) + AircraftTotal(Tail(fs))

FilterApplied == arg.op = "filterBySeverity" /\ ret # Null
UnionApplied == arg.op = "unionBySeverity" /\ ret # Null
AggLoaded == /\ arg.op = "loadData" /\ ret # Null
             /\ arg.dataSource = "jamming/agg" /\ arg.response.ok

\* C6: filterBySeverity retains a feature iff its ratio_bad (0 when absent)
\* lies in the range of at least one requested bucket, keeping the input
\* order; with no bucket requested the output is the input itself, and with
\* all three requested every feature is retained.
C6_FilterBySeverity ==
  FilterApplied =>
    LET input == arg.geojson.features
        requested(f) == \E b \in arg.severityLevels : InBucket(RatioOf(f), b)
    IN /\ arg.severityLevels # {} => ret.value.features = SelectSeq(input, requested)
       /\ arg.severityLevels = {} => ret.value = arg.geojson
       /\ arg.severityLevels = Buckets => ret.value.features = input

C6_Witness ==
  /\ FilterApplied
  /\ arg.severityLevels = {"low"}
  /\ Len(arg.geojson.features) = 3
  /\ Len(ret.value.features) = 1

\* what the claim says bucket b contributes to the output of unionBySeverity
BucketEmission(input, output, b) ==
  LET g == SeverityGroup(input, b)
      e == SeverityGroup(output, b)
  IN /\ Len(g) = 0 => Len(e) = 0
     /\ Len(g) = 1 => e = g
     /\ Len(g) > 1 =>
          /\ Len(e) = 1
          /\ LET m == e[1].properties
                 first == g[1].properties
             IN /\ {"ratio_bad", "unioned_count", "unioned"} \subseteq DOMAIN m
                /\ RatEq(Rat(m.ratio_bad.num * Len(g), m.ratio_bad.den), RatioTotal(g))
                /\ m.unioned_count = Len(g)
                /\ m.unioned = TRUE
                /\ \A k \in DOMAIN first \ {"ratio_bad"} :
                      k \in DOMAIN m /\ m[k] = first[k]
                /\ DOMAIN m \subseteq DOMAIN first \cup
                      {"ratio_bad", "severity_level", "unioned_count", "unioned"}

\* C7 as stated: every bucket with one feature emits it unchanged, every
\* bucket with N > 1 features emits exactly one merged feature (mean
\* ratio_bad, unioned_count N, unioned flag, first feature's other
\* properties), empty buckets emit nothing.
C7_Original ==
  UnionApplied =>
    \A b \in Buckets : BucketEmission(arg.geojson.features, ret.value.features, b)

\* C7 amended: the same, for every bucket whose group has at most one
\* feature or whose geometric union succeeds (Turf.js is loaded and
\* turf.union does not throw for that bucket).
C7_UnionBySeverity ==
  UnionApplied =>
    \A b \in Buckets :
      (\/ Len(SeverityGroup(arg.geojson.features, b)) <= 1
       \/ (arg.turfLoaded /\ b \notin arg.unionThrows))
      => BucketEmission(arg.geojson.features, ret.value.features, b)

C7_Witness ==
  /\ UnionApplied /\ arg.turfLoaded /\ arg.unionThrows = {}
  /\ Len(SeverityGroup(arg.geojson.features, "high")) = 2
  /\ Len(SeverityGroup(arg.geojson.features, "low")) = 1
  /\ Len(ret.value.features) = 2

\* C10: for a jamming aggregate load, stats.uniqueAircraft is the sum of
\* n_unique_ac over the features of the loaded collection and
\* stats.highSeverityCells the number of them with ratio_bad >= 0.3,
\* whatever severity buckets are selected; upstream ratio_bad 0.02, 0.12,
\* 0.4 with no severity filter (and no union) gives totalCells 3 and
\* highSeverityCells 1.
C10_AggStats ==
  AggLoaded =>
    LET fs == ret.value.data.features
        stats == ret.value.stats
        up == arg.response.data.features
    IN /\ stats.totalCells = Len(fs)
       /\ stats.uniqueAircraft = AircraftTotal(fs)
       /\ stats.highSeverityCells =
            Cardinality({ i \in 1..Len(fs) :
                            /\ "ratio_bad" \in DOMAIN fs[i].properties
                            /\ ~RatLt(fs[i].properties.ratio_bad, Rat(3, 10)) })
       /\ ( /\ Len(up) = 3
            /\ \A i \in 1..3 : "ratio_bad" \in DOMAIN up[i].properties
            /\ <<up[1].properties.ratio_bad, up[2].properties.ratio_bad,
                 up[3].properties.ratio_bad>> = <<Rat(2, 100), Rat(12, 100), Rat(40, 100)>>
            /\ arg.severityLevels = {} /\ ~arg.unionEnabled )
          => (stats.totalCells = 3 /\ stats.highSeverityCells = 1)

C10_Witness ==
  /\ AggLoaded
  /\ arg.severityLevels = {"low", "high"} /\ ~arg.unionEnabled
  /\ Len(arg.response.data.features) = 3
  /\ ret.value.stats.totalCells = 2
  /\ ret.value.stats.highSeverityCells = 1
  /\ ret.value.stats.uniqueAircraft = 7

----------------------------------------------------------------------------
(* APIClient: the request each call sends *)

getJammingData(options) ==
  [endpoint |-> "/db-api/v1/jamming/agg",
   query |-> [lookback_hours |-> Opt(options, "lookback_hours", 6),
              altitudes |-> Opt(options, "altitudes", "FL100-FL450"),
              altitude_summed |-> Opt(options, "altitude_summed", FALSE),
              hours_summed |-> Opt(options, "hours_summed", TRUE),
              n_obs_min |-> Opt(options, "n_obs_min", 5),
              grouped |-> Opt(options, "grouped", FALSE),
              full_output |-> Opt(options, "full_output", FALSE),
              max_ratio_bad |-> Opt(options, "max_ratio_bad", Rat(5, 100)),
              max_n_bad |-> Opt(options, "max_n_bad", 3)]]

getJammingCoverage(options) ==
  [endpoint |-> "/db-api/v1/jamming/coverage",
   query |-> [lookback_hours |-> Opt(options, "lookback_hours", 24),
              altitudes |-> Opt(options, "altitudes", "FL100-FL450"),
              altitude_summed |-> Opt(options, "altitude_summed", FALSE),
              show_no_coverage |-> Opt(options, "show_no_coverage", FALSE),
              min_count |-> Opt(options, "n_obs_min", 5),
              grouped |-> Opt(options, "grouped", FALSE)]]

getSpoofingData(options) ==
  [endpoint |-> "/db-api/v1/spoofing/agg/geojson",
   query |-> [lookback_minutes |->
                Opt(options, "lookback_minutes", Opt(options, "lookback_hours", 6) * 60)]]

getSpoofingH3Data(options) ==
  [endpoint |-> "/db-api/v1/spoofing/h3_geojson",
   query |-> [lookback_minutes |-> Opt(options, "lookback_minutes", 1440),
              resolution |-> Opt(options, "resolution", 3),
              coordinates_source |-> Opt(options, "coordinates_source", "interpolated")]]

ApiCall(method, options) ==
  CASE method = "getJammingData" -> getJammingData(options)
    [] method = "getJammingCoverage" -> getJammingCoverage(options)
    [] method = "getSpoofingData" -> getSpoofingData(options)
    [] method = "getSpoofingH3Data" -> getSpoofingH3Data(options)

----------------------------------------------------------------------------
(* The upstream API as the coordinator sees it: one collection per request *)

Event1 == Feature(11, "flight_id" :> 1 @@ "icao24" :> 1)
Event2 == Feature(12, "flight_id" :> 2 @@ "icao24" :> 1)
Cell1 == Feature(21, "count" :> 3)
Cell2 == Feature(22, "count" :> 10)

Upstream(request) ==
  CASE request.endpoint = "/db-api/v1/jamming/agg" ->
         FeatureCollection(IF request.query.lookback_hours >= 24
                           THEN <<Hex1, Hex2, Hex3>> ELSE <<Hex3, Hex2>>)
    [] request.endpoint = "/db-api/v1/jamming/coverage" ->
         FeatureCollection(<<Hex4>>)
    [] request.endpoint = "/db-api/v1/spoofing/agg/geojson" ->
         FeatureCollection(IF request.query.lookback_minutes >= 1440
                           THEN <<Event1, Event2>> ELSE <<Event2>>)
    [] request.endpoint = "/db-api/v1/spoofing/h3_geojson" ->
         FeatureCollection(<<Cell1, Cell2>>)

----------------------------------------------------------------------------
(* App: table rendering *)

\* the value sortFeatures reads for a column; Null when null / undefined
ColumnPresent(f, column) ==
  IF column = "id" THEN "id" \in DOMAIN f
  ELSE column \in DOMAIN f.properties

ColumnValue(f, column) ==
  IF column = "id" THEN f.id ELSE f.properties[column]

\* aVal - bVal, as a sign; ratio_bad is the one non-integer column
Difference(aVal, bVal, column) ==
  IF column = "ratio_bad"
  THEN (IF RatLt(aVal, bVal) THEN -1 ELSE IF RatLt(bVal, aVal) THEN 1 ELSE 0)
  ELSE aVal - bVal

\* the comparator passed to Array.prototype.sort
Compare(a, b, column, direction) ==
  IF ~ColumnPresent(a, column) /\ ~ColumnPresent(b, column) THEN 0
  ELSE IF ~ColumnPresent(a, column) THEN (IF direction = "asc" THEN 1 ELSE -1)
  ELSE IF ~ColumnPresent(b, column) THEN (IF direction = "asc" THEN -1 ELSE 1)
  ELSE LET comparison == Difference(ColumnValue(a, column), ColumnValue(b, column), column)
       IN IF direction = "asc" THEN comparison ELSE 0 - comparison

RECURSIVE InsertSorted(_, _, _, _)
InsertSorted(sorted, x, column, direction) ==
  IF sorted = <<>> THEN <<x>>
  ELSE IF Compare(sorted[Len(sorted)], x, column, direction) <= 0
  THEN Append(sorted, x)
  ELSE Append(InsertSorted(SubSeq(sorted, 1, Len(sorted) - 1), x, column, direction),
              sorted[Len(sorted)])

\* Array.prototype.sort is stable
RECURSIVE sortFeatures(_, _, _)
sortFeatures(features, column, direction) ==
  IF features = <<>> THEN <<>>
  ELSE InsertSorted(sortFeatures(SubSeq(features, 1, Len(features) - 1), column, direction),
                    features[Len(features)], column, direction)

\* the rows updateTableDisplay renders
updateTableDisplay(data, sortColumn, sortDirection) ==
  IF data = Null \/ data.features = <<>> THEN <<>>
  ELSE IF sortColumn # NoColumn
  THEN sortFeatures(data.features, sortColumn, sortDirection)
  ELSE data.features

----------------------------------------------------------------------------
(* App and MapManager: the refresh pipeline *)

\* the values the modelled UI events choose from
DataSources == {"jamming/agg", "spoofing/agg"}
SortColumns == {"id"}

IsSpoofing(dataSource) == dataSource \in {"spoofing/agg", "spoofing/h3"}

\* options.unionBySeverity === true
OptionUnionBySeverity(options) == Opt(options, "unionBySeverity", FALSE)

RemoveAt(seq, i) == SubSeq(seq, 1, i - 1) \o SubSeq(seq, i + 1, Len(seq))

\* what the user sees, and the map state behind it
ViewState ==
  [currentJsonData |-> currentJsonData,
   jsonTree |-> jsonTree,
   tableRows |-> tableRows,
   statsPanel |-> statsPanel,
   jammingSource |-> jammingLayer.source,
   spoofingSource |-> spoofingLayer.source,
   jammingVisible |-> jammingLayer.visible,
   spoofingVisible |-> spoofingLayer.visible,
   currentLayerType |-> currentLayerType]

\* the calls a load issues before its await
CallsOf(dataSource, showBoth) ==
  IF IsSpoofing(dataSource)
  THEN (IF showBoth THEN {"getSpoofingData", "getSpoofingH3Data"}
        ELSE IF dataSource = "spoofing/h3" THEN {"getSpoofingH3Data"}
        ELSE {"getSpoofingData"})
  ELSE (IF dataSource = "jamming/coverage" THEN {"getJammingCoverage"}
        ELSE {"getJammingData"})

\* a load suspended at its await
NewLoad(origin, options) ==
  LET dataSource == Opt(options, "dataSource", "jamming/agg")
      showBoth == Opt(options, "showBothSpoofingLayers", FALSE)
      calls == CallsOf(dataSource, showBoth)
  IN [origin |-> origin,
      dataSource |-> dataSource,
      severityLevels |-> Opt(options, "jammingSeverityLevels", {}),
      isH3 |-> dataSource = "spoofing/h3",
      showBoth |-> showBoth,
      settings |-> options,
      pending |-> calls,
      requests |-> [c \in calls |-> ApiCall(c, options)],
      responses |-> <<>>]

\* MapManager.loadJammingData up to its await: switch the visible layer
\* group, then enter the layer's loadData (which sets currentMode and
\* issues its calls)
loadJammingData_start(origin) ==
  LET dataSource == currentSettings.dataSource
      isSpoofing == IsSpoofing(dataSource)
      switched == IF isSpoofing /\ currentLayerType # "spoofing"
                  THEN [jam |-> FALSE, spoof |-> TRUE, type |-> "spoofing"]
                  ELSE IF ~isSpoofing /\ currentLayerType # "jamming"
                  THEN [jam |-> TRUE, spoof |-> FALSE, type |-> "jamming"]
                  ELSE [jam |-> jammingLayer.visible, spoof |-> spoofingLayer.visible,
                        type |-> currentLayerType]
  IN /\ currentLayerType' = switched.type
     /\ jammingLayer' = [jammingLayer EXCEPT !.visible = switched.jam]
     /\ spoofingLayer' =
          LET layer == [spoofingLayer EXCEPT !.visible = switched.spoof]
          IN IF isSpoofing THEN SpoofingLayer_loadData_start(layer, currentSettings)
             ELSE layer
     /\ inflight' = Append(inflight, NewLoad(origin, currentSettings))

\* seeded fault: the single-flight guard removed
AlreadyLoading_never == FALSE

\* if (this.isLoading) return
AlreadyLoading == isLoading

\* App.refreshData up to its await.  Constrains isLoading,
\* refreshButtonDisabled, inflight, the map variables, snapshot
\* and missed; the caller constrains the rest.
refreshData(origin) ==
  IF AlreadyLoading
  THEN /\ missed' = IF origin = "debounce" THEN missed \cup {"dropped"} ELSE missed
       /\ UNCHANGED <<isLoading, refreshButtonDisabled, inflight, mapVars, snapshot>>
  ELSE /\ isLoading' = TRUE
       /\ refreshButtonDisabled' = TRUE
       /\ loadJammingData_start(origin)
       /\ snapshot' = ViewState
       /\ UNCHANGED missed

\* App.init: build the map and its layers, attach the listeners, start the
\* first refresh
AppInit ==
  /\ phase = "constructed"
  /\ phase' = "initRefresh"
  /\ isLoading' = TRUE
  /\ refreshButtonDisabled' = TRUE
  /\ currentLayerType' = "jamming"
  /\ jammingLayer' = NewJammingLayer
  /\ spoofingLayer' = [NewSpoofingLayer EXCEPT !.visible = FALSE]
  /\ inflight' = Append(inflight, NewLoad("init", currentSettings))
  /\ snapshot' = [currentJsonData |-> currentJsonData,
                  jsonTree |-> jsonTree,
                  tableRows |-> tableRows,
                  statsPanel |-> statsPanel,
                  jammingSource |-> EmptyCollection,
                  spoofingSource |-> EmptyCollection,
                  jammingVisible |-> TRUE,
                  spoofingVisible |-> FALSE,
                  currentLayerType |-> "jamming"]
  /\ UNCHANGED <<netVars, proxyVars, currentSettings, refreshDebounceTimer, autoRefreshInterval,
                 currentJsonData, statsPanel, jsonTree, tableRows, tableSortColumn,
                 tableSortDirection, sinceChange, burst, debounceCalls, shown, missed,
                 opVars>>

\* the rest of App.init once its refreshData has returned
InitContinues(load) ==
  IF phase = "initRefresh" /\ load.origin = "init"
  THEN phase' = "running" /\ autoRefreshInterval' = TRUE
  ELSE UNCHANGED <<phase, autoRefreshInterval>>

\* seeded fault: the flag and the button are reset on success only
refreshData_finally_onSuccess(failed) ==
  IF failed THEN UNCHANGED <<isLoading, refreshButtonDisabled>>
  ELSE /\ isLoading' = FALSE
       /\ refreshButtonDisabled' = FALSE

\* the finally block of App.refreshData, run after the try and after the
\* catch alike
refreshData_finally(failed) ==
  /\ isLoading' = FALSE
  /\ refreshButtonDisabled' = FALSE

\* seeded fault: a result fetched with settings that have changed since is
\* discarded
refreshData_resume_ifCurrent(load, result) ==
  IF load.settings = currentSettings
  THEN /\ currentJsonData' = result.data
       /\ statsPanel' = [stats |-> result.stats, url |-> result.metadata.url]
       /\ jsonTree' = result.data
       /\ tableRows' = updateTableDisplay(result.data, tableSortColumn,
                                          tableSortDirection)
  ELSE UNCHANGED <<currentJsonData, statsPanel, jsonTree, tableRows>>

\* App.refreshData after its await: store the result, update the stats
\* and the JSON and table displays
refreshData_resume(load, result) ==
  /\ currentJsonData' = result.data
  /\ statsPanel' = [stats |-> result.stats, url |-> result.metadata.url]
  /\ jsonTree' = result.data
  /\ tableRows' = updateTableDisplay(result.data, tableSortColumn,
                                     tableSortDirection)

\* a fetch of the load inflight[i] resolves with a success status
CallResolves(i, call) ==
  /\ i \in 1..Len(inflight)
  /\ call \in inflight[i].pending
  /\ LET load == inflight[i]
         request == load.requests[call]
         response == OkResponse(Upstream(request), request)
         responses == (call :> response) @@ load.responses
     IN IF load.pending # {call}
        THEN \* Promise.all still waits for the other call
             /\ inflight' = [inflight EXCEPT ![i].pending = @ \ {call},
                                             ![i].responses = responses]
             /\ UNCHANGED <<netVars, proxyVars, currentSettings, isLoading, refreshDebounceTimer,
                            autoRefreshInterval, phase, currentJsonData, statsPanel,
                            jsonTree, tableRows, tableSortColumn, tableSortDirection,
                            refreshButtonDisabled, mapVars, sinceChange, burst,
                            debounceCalls, snapshot, shown, missed, opVars>>
        ELSE LET r == IF IsSpoofing(load.dataSource)
                      THEN SpoofingLayer_loadData(spoofingLayer, load.isH3,
                                                  load.showBoth, responses)
                      ELSE JammingLayer_loadData(jammingLayer, load.dataSource,
                                                 load.severityLevels,
                                                 OptionUnionBySeverity(currentSettings),
                                                 response, TRUE, {})
             IN /\ IF IsSpoofing(load.dataSource)
                   THEN spoofingLayer' = r.layer /\ UNCHANGED jammingLayer
                   ELSE jammingLayer' = r.layer /\ UNCHANGED spoofingLayer
                /\ refreshData_resume(load, r.result)
                /\ refreshData_finally(FALSE)
                /\ inflight' = RemoveAt(inflight, i)
                /\ InitContinues(load)
                /\ snapshot' = Null
                /\ shown' = load.settings
                /\ UNCHANGED <<netVars, proxyVars, currentSettings, refreshDebounceTimer, tableSortColumn,
                               tableSortDirection, currentLayerType, sinceChange, burst,
                               debounceCalls, missed, opVars>>

\* a fetch of the load inflight[i] rejects or returns a non-success status:
\* loadData rethrows, refreshData shows the error notice
CallRejects(i, call) ==
  /\ i \in 1..Len(inflight)
  /\ call \in inflight[i].pending
  /\ refreshData_finally(TRUE)
  /\ inflight' = RemoveAt(inflight, i)
  /\ InitContinues(inflight[i])
  /\ missed' = missed \cup {"failed"}
  /\ UNCHANGED <<netVars, proxyVars, currentSettings, refreshDebounceTimer, currentJsonData, statsPanel,
                 jsonTree, tableRows, tableSortColumn, tableSortDirection, mapVars,
                 sinceChange, burst, debounceCalls, snapshot, shown, opVars>>

FetchSucceeds == \E i \in 1..Len(inflight) : \E call \in inflight[i].pending :
                   CallResolves(i, call)
FetchFails == \E i \in 1..Len(inflight) : \E call \in inflight[i].pending :
                CallRejects(i, call)

\* seeded fault: no timer is set at all
debouncedRefresh_never(pendingTimer) == NoTimer

\* seeded fault: a pending timer is left to run instead of being restarted
debouncedRefresh_keep(pendingTimer) ==
  IF pendingTimer # NoTimer THEN pendingTimer ELSE DEBOUNCE_DELAY

\* App.debouncedRefresh: clearTimeout, then setTimeout(DEBOUNCE_DELAY);
\* the value is the remaining time of the pending timer
debouncedRefresh(pendingTimer) == DEBOUNCE_DELAY

\* a 'change' listener of setupEventListeners: record the value, then
\* debouncedRefresh()
SettingChanged(field, value) ==
  /\ phase # "constructed"
  /\ value # currentSettings[field]
  /\ currentSettings' = [currentSettings EXCEPT ![field] = value]
  /\ refreshDebounceTimer' = debouncedRefresh(refreshDebounceTimer)
  /\ burst' = IF burst > 0 /\ sinceChange < DEBOUNCE_DELAY
              THEN (IF burst < MaxBurst THEN burst + 1 ELSE burst)
              ELSE 1
  /\ sinceChange' = 0
  /\ debounceCalls' = 0
  /\ missed' = {}
  /\ UNCHANGED <<netVars, proxyVars, isLoading, autoRefreshInterval, phase, inflight, currentJsonData,
                 statsPanel, jsonTree, tableRows, tableSortColumn, tableSortDirection,
                 refreshButtonDisabled, mapVars, snapshot, shown, opVars>>

SetDataSource == \E v \in DataSources : SettingChanged("dataSource", v)
SetShowBothSpoofingLayers ==
  \E v \in BOOLEAN : SettingChanged("showBothSpoofingLayers", v)
\* the debounce timeout expires: its callback calls refreshData
DebounceTimerFires ==
  /\ refreshDebounceTimer = 0
  /\ refreshDebounceTimer' = NoTimer
  /\ debounceCalls' = debounceCalls + 1
  /\ refreshData("debounce")
  /\ UNCHANGED <<netVars, proxyVars, currentSettings, autoRefreshInterval, phase, currentJsonData,
                 statsPanel, jsonTree, tableRows, tableSortColumn, tableSortDirection,
                 sinceChange, burst, shown, opVars>>

\* the auto-refresh interval ticks.  Its period (15 minutes) is far beyond
\* the clock modelled here, so the tick may come at any moment.
AutoRefreshTick ==
  /\ autoRefreshInterval
  /\ refreshData("auto")
  /\ UNCHANGED <<netVars, proxyVars, currentSettings, refreshDebounceTimer, autoRefreshInterval, phase,
                 currentJsonData, statsPanel, jsonTree, tableRows, tableSortColumn,
                 tableSortDirection, sinceChange, burst, debounceCalls, shown, opVars>>

\* seeded fault: the refresh button also cancels the pending debounce timer
ManualRefresh_cancelsTimer ==
  /\ phase # "constructed"
  /\ refreshData("manual")
  /\ refreshDebounceTimer' = NoTimer
  /\ UNCHANGED <<netVars, proxyVars, currentSettings, autoRefreshInterval, phase,
                 currentJsonData, statsPanel, jsonTree, tableRows, tableSortColumn,
                 tableSortDirection, sinceChange, burst, debounceCalls, shown, opVars>>

\* click on the refresh button (the handler is modelled as callable at any
\* time after the listeners are attached)
ManualRefresh ==
  /\ phase # "constructed"
  /\ refreshData("manual")
  /\ UNCHANGED <<netVars, proxyVars, currentSettings, refreshDebounceTimer, autoRefreshInterval, phase,
                 currentJsonData, statsPanel, jsonTree, tableRows, tableSortColumn,
                 tableSortDirection, sinceChange, burst, debounceCalls, shown, opVars>>

\* seeded fault: a click on the sorted column leaves the direction alone
sortTable_noToggle(column) ==
  /\ phase # "constructed"
  /\ tableRows # <<>>
  /\ tableSortColumn' = column
  /\ tableSortDirection' = IF tableSortColumn = column THEN tableSortDirection ELSE "asc"
  /\ tableRows' = updateTableDisplay(currentJsonData, tableSortColumn',
                                     tableSortDirection')
  /\ UNCHANGED <<netVars, proxyVars, currentSettings, isLoading, refreshDebounceTimer, autoRefreshInterval,
                 phase, inflight, currentJsonData, statsPanel, jsonTree,
                 refreshButtonDisabled, mapVars, sinceChange, burst, debounceCalls,
                 snapshot, shown, missed>>

\* App.sortTable: click on a column header of the rendered table
sortTable(column) ==
  /\ phase # "constructed"
  /\ tableRows # <<>>
  /\ IF tableSortColumn = column
     THEN /\ tableSortDirection' = IF tableSortDirection = "asc" THEN "desc" ELSE "asc"
          /\ UNCHANGED tableSortColumn
     ELSE /\ tableSortColumn' = column
          /\ tableSortDirection' = "asc"
  /\ tableRows' = updateTableDisplay(currentJsonData, tableSortColumn',
                                     tableSortDirection')
  /\ UNCHANGED <<netVars, proxyVars, currentSettings, isLoading, refreshDebounceTimer, autoRefreshInterval,
                 phase, inflight, currentJsonData, statsPanel, jsonTree,
                 refreshButtonDisabled, mapVars, sinceChange, burst, debounceCalls,
                 snapshot, shown, missed>>

SortTable == \E column \in SortColumns : sortTable(column) /\ UNCHANGED opVars

SinceCap == DEBOUNCE_DELAY + TickMs

\* time passes, by at most TickMs and never past a pending deadline
Tick ==
  /\ burst > 0
  /\ refreshDebounceTimer # 0
  /\ refreshDebounceTimer # NoTimer \/ sinceChange < SinceCap
  /\ LET d == IF refreshDebounceTimer # NoTimer /\ refreshDebounceTimer < TickMs
              THEN refreshDebounceTimer ELSE TickMs
     IN /\ refreshDebounceTimer' = IF refreshDebounceTimer = NoTimer THEN NoTimer
                                   ELSE refreshDebounceTimer - d
        /\ sinceChange' = IF sinceChange + d > SinceCap THEN SinceCap
                          ELSE sinceChange + d
  /\ UNCHANGED <<netVars, proxyVars, currentSettings, isLoading, autoRefreshInterval, phase, inflight,
                 currentJsonData, statsPanel, jsonTree, tableRows, tableSortColumn,
                 tableSortDirection, refreshButtonDisabled, mapVars, burst,
                 debounceCalls, snapshot, shown, missed, opVars>>

Init == InitApp /\ Idle /\ arg = Null /\ ret = Null

Next ==
  \/ AppInit
  \/ SetDataSource
  \/ SetShowBothSpoofingLayers
  \/ DebounceTimerFires
  \/ AutoRefreshTick
  \/ ManualRefresh
  \/ FetchSucceeds
  \/ FetchFails
  \/ SortTable
  \/ Tick

Spec == Init /\ [][Next]_vars

----------------------------------------------------------------------------
(* Properties of the settings/refresh coordinator (checked under Spec) *)

\* the same rows, in any order
SameRows(a, b) ==
  /\ Len(a) = Len(b)
  /\ \A i \in 1..Len(a) :
       Cardinality({ j \in 1..Len(a) : a[j] = a[i] })
         = Cardinality({ j \in 1..Len(b) : b[j] = a[i] })

\* C1: a burst of setting changes, each less than 2000 ms after the
\* previous one, produces exactly one refresh call by the debounce timer,
\* made 2000 ms after the last change: none earlier, none after it.
C1_Debounce ==
  burst > 0 =>
    /\ debounceCalls <= 1
    /\ sinceChange < 2000 => debounceCalls = 0
    /\ sinceChange > 2000 => debounceCalls = 1
    /\ debounceCalls = 0 => refreshDebounceTimer = 2000 - sinceChange
    /\ debounceCalls = 1 => refreshDebounceTimer = NoTimer

C1_Witness ==
  burst >= 2 /\ debounceCalls = 1 /\ sinceChange = 2000

\* C2: a refresh requested while another is in flight is dropped: it adds
\* no load (no network call) and changes neither the load in flight, the
\* stored result, the views nor the map; at most one refresh is ever in
\* flight, and what is stored when it resolves is the result of the
\* requests that refresh issued when it started.
C2_SingleFlight ==
  [][ /\ Len(inflight') <= 1
      /\ (isLoading /\ isLoading') =>
           /\ Len(inflight) = 1 /\ Len(inflight') = 1
           /\ inflight'[1].origin = inflight[1].origin
           /\ inflight'[1].requests = inflight[1].requests
           /\ UNCHANGED <<currentJsonData, statsPanel, jsonTree, jammingLayer,
                          spoofingLayer, currentLayerType, refreshButtonDisabled, shown>>
      /\ (isLoading /\ ~isLoading' /\ currentJsonData' # currentJsonData) =>
           /\ shown' = inflight[1].settings
           /\ \E c \in DOMAIN inflight[1].requests :
                statsPanel'.url = inflight[1].requests[c]
    ]_vars

C2_Witness ==
  isLoading /\ Len(inflight) = 1 /\ "dropped" \in missed

\* C3: after a failed refresh the stored result, the map sources, the table,
\* the JSON tree, the stats panel and the visible layer group are what they
\* were when that refresh started.
C3_FailedRefreshChangesNothing ==
  (phase # "constructed" /\ ~isLoading /\ snapshot # Null) =>
     /\ [ViewState EXCEPT !.tableRows = <<>>] = [snapshot EXCEPT !.tableRows = <<>>]
     /\ SameRows(tableRows, snapshot.tableRows)

\* C4: whenever no refresh is in flight, every visible map source, the table
\* and the JSON tree present the feature collection of the stored result.
C4_ViewsAgree ==
  (phase # "constructed" /\ ~isLoading /\ currentJsonData # Null) =>
     /\ jsonTree = currentJsonData
     /\ SameRows(tableRows, currentJsonData.features)
     /\ jammingLayer.visible \/ spoofingLayer.visible
     /\ jammingLayer.visible => jammingLayer.source = currentJsonData
     /\ spoofingLayer.visible => spoofingLayer.source = currentJsonData

AtRest == phase = "running" /\ ~isLoading /\ refreshDebounceTimer = NoTimer

\* C5 as stated: once a setting has changed and no refresh has failed since,
\* the system is never at rest (no refresh in flight, no debounce timer
\* pending) with a stored result fetched with other settings than the
\* current ones.
C5_Original ==
  (AtRest /\ burst > 0 /\ "failed" \notin missed) => shown = currentSettings

\* C5 amended: the system is at rest showing a result fetched with other
\* settings than the current ones only if, since the last change, the
\* debounce timer's refresh call was dropped because a refresh was in flight
\* or a refresh failed.
C5_StaleOnlyIfDroppedOrFailed ==
  (AtRest /\ burst > 0 /\ shown # currentSettings) => missed # {}

C5_Witness ==
  AtRest /\ burst > 0 /\ shown # Null /\ shown # currentSettings /\ missed = {"dropped"}

----------------------------------------------------------------------------
(* SpecSpoof: SpoofingLayer.loadData called directly, one load at a time, *)
(* with responses drawn from bounded sets and arriving in any order      *)

MaxSpoofLen == 2

Event3 == Feature(13, "flight_id" :> 2 @@ "icao24" :> 2)

EventCollections ==
  { FeatureCollection(fs) : fs \in SeqsUpTo({Event1, Event2, Event3}, MaxSpoofLen) }
CellCollections ==
  { FeatureCollection(fs) : fs \in SeqsUpTo({Cell1, Cell2}, MaxSpoofLen) }

SpoofUpstream(call) ==
  IF call = "getSpoofingData" THEN EventCollections ELSE CellCollections

SpoofOptions ==
  { [dataSource |-> d, showBothSpoofingLayers |-> b] :
      d \in {"spoofing/agg", "spoofing/h3"}, b \in BOOLEAN }

BothCalls == {"getSpoofingData", "getSpoofingH3Data"}

InitSpoof ==
  /\ InitApp
  /\ Idle
  /\ arg = Null
  /\ ret = Null

\* new SpoofingLayer(...) and initialize()
SpoofingLayerCreated ==
  /\ spoofingLayer = Null
  /\ spoofingLayer' = NewSpoofingLayer
  /\ UNCHANGED <<netVars, proxyVars, appVars, currentLayerType, jammingLayer, obsVars, opVars>>

\* loadData(options) up to its await
SpoofingLoadStarts ==
  /\ spoofingLayer # Null
  /\ inflight = <<>>
  /\ \E options \in SpoofOptions :
       /\ spoofingLayer' = SpoofingLayer_loadData_start(spoofingLayer, options)
       /\ inflight' = <<NewLoad("loadData", options)>>
       /\ arg' = options
  /\ ret' = Null
  /\ UNCHANGED <<netVars, proxyVars, currentSettings, isLoading, refreshDebounceTimer, autoRefreshInterval,
                 phase, currentJsonData, statsPanel, jsonTree, tableRows,
                 tableSortColumn, tableSortDirection, refreshButtonDisabled,
                 currentLayerType, jammingLayer, obsVars>>

\* one of the load's fetches resolves
SpoofingCallResolves ==
  /\ inflight # <<>>
  /\ \E call \in inflight[1].pending : \E data \in SpoofUpstream(call) :
       LET load == inflight[1]
           response == OkResponse(data, load.requests[call])
           responses == (call :> response) @@ load.responses
       IN IF load.pending # {call}
          THEN /\ inflight' = <<[load EXCEPT !.pending = @ \ {call},
                                             !.responses = responses]>>
               /\ UNCHANGED <<spoofingLayer, ret>>
          ELSE LET r == SpoofingLayer_loadData(spoofingLayer, load.isH3,
                                               load.showBoth, responses)
               IN /\ spoofingLayer' = r.layer
                  /\ ret' = [value |-> r.result, responses |-> responses]
                  /\ inflight' = <<>>
  /\ UNCHANGED <<netVars, proxyVars, currentSettings, isLoading, refreshDebounceTimer, autoRefreshInterval,
                 phase, currentJsonData, statsPanel, jsonTree, tableRows,
                 tableSortColumn, tableSortDirection, refreshButtonDisabled,
                 currentLayerType, jammingLayer, obsVars, arg>>

\* one of the load's fetches rejects: Promise.all rejects, loadData rethrows
SpoofingCallRejects ==
  /\ inflight # <<>>
  /\ \E call \in inflight[1].pending :
       /\ inflight' = <<>>
       /\ ret' = [thrown |-> TRUE, failed |-> call, responses |-> inflight[1].responses]
  /\ UNCHANGED <<netVars, proxyVars, currentSettings, isLoading, refreshDebounceTimer, autoRefreshInterval,
                 phase, currentJsonData, statsPanel, jsonTree, tableRows,
                 tableSortColumn, tableSortDirection, refreshButtonDisabled,
                 mapVars, obsVars, arg>>

NextSpoof ==
  \/ SpoofingLayerCreated
  \/ SpoofingLoadStarts
  \/ SpoofingCallResolves
  \/ SpoofingCallRejects

SpecSpoof == InitSpoof /\ [][NextSpoof]_vars

----------------------------------------------------------------------------
(* Properties of the combined spoofing load (SpecSpoof) *)

\* a combined-mode load has returned
CombinedLoaded ==
  /\ ret # Null
  /\ "value" \in DOMAIN ret
  /\ arg.showBothSpoofingLayers

EventResponse == ret.responses["getSpoofingData"]
CellResponse == ret.responses["getSpoofingH3Data"]

\* C8: in combined spoofing mode the rendered collection holds the event
\* response's features followed by the density-grid response's features (so
\* its length is the sum of theirs), while the stats and the metadata returned
\* are those of the selected source's response alone, whichever source is
\* selected.
C8_CombinedSpoofing ==
  CombinedLoaded =>
    LET events == EventResponse.data.features
        cells == CellResponse.data.features
        rendered == ret.value.data.features
    IN /\ Len(rendered) = Len(events) + Len(cells)
       /\ \A i \in 1..Len(events) : rendered[i] = events[i]
       /\ \A i \in 1..Len(cells) : rendered[Len(events) + i] = cells[i]
       /\ spoofingLayer.source = ret.value.data
       /\ IF arg.dataSource = "spoofing/h3"
          THEN /\ ret.value.metadata = CellResponse.metadata
               /\ ret.value.stats =
                    [totalCells |-> Len(cells),
                     totalAffected |-> SumCount(cells),
                     highCountCells |->
                       Cardinality({i \in 1..Len(cells) : cells[i].properties.count >= 10})]
          ELSE /\ ret.value.metadata = EventResponse.metadata
               /\ ret.value.stats =
                    [totalCells |-> Len(events),
                     uniqueAircraft |->
                       Cardinality({events[i].properties.icao24 : i \in 1..Len(events)}),
                     highSeverityCells |->
                       Cardinality({events[i].properties.flight_id : i \in 1..Len(events)})]

\* a combined load with the density grid selected, both responses non-empty
C8_Witness ==
  /\ CombinedLoaded
  /\ arg.dataSource = "spoofing/h3"
  /\ Len(EventResponse.data.features) = 2
  /\ Len(CellResponse.data.features) = 1
  /\ Len(ret.value.data.features) = 3
  /\ ret.value.stats.totalCells = 1

CombinedInFlight ==
  /\ inflight # <<>>
  /\ inflight[1].showBoth

\* C9: in combined spoofing mode both calls are outstanding together from the
\* start of the load; whichever response arrives first, a failing call fails
\* the whole load and leaves the layer's stored data and map source as they
\* were, and they are written only by the step on which the second of two
\* successful responses arrives, with the features of both.
C9_BothOrNothing ==
  [][ /\ (inflight = <<>> /\ inflight' # <<>> /\ inflight'[1].showBoth) =>
           /\ inflight'[1].pending = BothCalls
           /\ DOMAIN inflight'[1].requests = BothCalls
           /\ inflight'[1].responses = <<>>
      /\ CombinedInFlight =>
           /\ inflight[1].pending \cup DOMAIN inflight[1].responses = BothCalls
           /\ (ret' # Null /\ "thrown" \in DOMAIN ret') =>
                /\ inflight' = <<>>
                /\ spoofingLayer'.currentData = spoofingLayer.currentData
                /\ spoofingLayer'.source = spoofingLayer.source
           /\ (\/ spoofingLayer'.currentData # spoofingLayer.currentData
               \/ spoofingLayer'.source # spoofingLayer.source) =>
                /\ inflight' = <<>>
                /\ "value" \in DOMAIN ret'
                /\ DOMAIN ret'.responses = BothCalls
                /\ \A c \in BothCalls : ret'.responses[c].ok
                /\ spoofingLayer'.currentData.features =
                     ret'.responses["getSpoofingData"].data.features
                       \o ret'.responses["getSpoofingH3Data"].data.features
                /\ spoofingLayer'.source = spoofingLayer'.currentData
    ]_vars

\* the density grid answered first, then the event call failed, and the data
\* of the previous load is still on the layer
C9_Witness ==
  /\ ret # Null
  /\ "thrown" \in DOMAIN ret
  /\ arg.showBothSpoofingLayers
  /\ ret.failed = "getSpoofingData"
  /\ DOMAIN ret.responses = {"getSpoofingH3Data"}
  /\ Len(ret.responses["getSpoofingH3Data"].data.features) > 0
  /\ spoofingLayer.currentData # Null
  /\ spoofingLayer.source = spoofingLayer.currentData

----------------------------------------------------------------------------
(* APIClient in detail: JavaScript values of the options, the query       *)
(* string built by _get, the single fetch and its outcome (SpecApi)       *)

MaxDeviations == 2      \* option fields drawn away from the base options

JsUndefined == [type |-> "undefined"]
JsNull == [type |-> "null"]
JsNaN == [type |-> "number", nan |-> TRUE]
JsNumber(n) == [type |-> "number", number |-> n]
JsFraction(r) == [type |-> "number", fraction |-> r]      \* 0 <= r < 1, in hundredths
JsBoolean(b) == [type |-> "boolean", boolean |-> b]
JsString(str) == [type |-> "string", string |-> str]

\* String(v), as URLSearchParams.append converts its value
String(v) ==
  CASE v = JsUndefined -> "undefined"
    [] v = JsNull -> "null"
    [] v = JsNaN -> "NaN"
    [] "number" \in DOMAIN v -> ToString(v.number)
    [] "fraction" \in DOMAIN v ->
         LET h == (v.fraction.num * 100) \div v.fraction.den
         IN IF h = 0 THEN "0"
            ELSE "0." \o ToString(h \div 10) \o (IF h % 10 = 0 THEN "" ELSE ToString(h % 10))
    [] "boolean" \in DOMAIN v -> IF v.boolean THEN "true" ELSE "false"
    [] "string" \in DOMAIN v -> v.string

\* v * 60 (ToNumber on the left operand)
Times60(v) ==
  CASE v = JsNull -> JsNumber(0)
    [] v = JsUndefined -> JsNaN
    [] v = JsNaN -> JsNaN
    [] "number" \in DOMAIN v -> JsNumber(v.number * 60)
    [] "fraction" \in DOMAIN v -> JsFraction(v.fraction)     \* not drawn for lookback_hours
    [] "boolean" \in DOMAIN v -> JsNumber(IF v.boolean THEN 60 ELSE 0)
    [] "string" \in DOMAIN v -> IF v.string = "" THEN JsNumber(0) ELSE JsNaN

\* a destructuring default: it replaces a missing or undefined property,
\* not a null one
Destructure(options, k, default) ==
  IF k \in DOMAIN options /\ options[k] # JsUndefined THEN options[k] ELSE default

\* the params object each call hands to _get, as <<key, value>> in key order
getJammingData_params(options) ==
  << <<"lookback_hours", Destructure(options, "lookback_hours", JsNumber(6))>>,
     <<"altitudes", Destructure(options, "altitudes", JsString("FL100-FL450"))>>,
     <<"altitude_summed", Destructure(options, "altitude_summed", JsBoolean(FALSE))>>,
     <<"hours_summed", Destructure(options, "hours_summed", JsBoolean(TRUE))>>,
     <<"n_obs_min", Destructure(options, "n_obs_min", JsNumber(5))>>,
     <<"grouped", Destructure(options, "grouped", JsBoolean(FALSE))>>,
     <<"full_output", Destructure(options, "full_output", JsBoolean(FALSE))>>,
     <<"max_ratio_bad", Destructure(options, "max_ratio_bad", JsFraction(Rat(5, 100)))>>,
     <<"max_n_bad", Destructure(options, "max_n_bad", JsNumber(3))>> >>

getJammingCoverage_params(options) ==
  << <<"lookback_hours", Destructure(options, "lookback_hours", JsNumber(24))>>,
     <<"altitudes", Destructure(options, "altitudes", JsString("FL100-FL450"))>>,
     <<"altitude_summed", Destructure(options, "altitude_summed", JsBoolean(FALSE))>>,
     <<"show_no_coverage", Destructure(options, "show_no_coverage", JsBoolean(FALSE))>>,
     <<"min_count", Destructure(options, "n_obs_min", JsNumber(5))>>,
     <<"grouped", Destructure(options, "grouped", JsBoolean(FALSE))>> >>

getSpoofingData_params(options) ==
  LET lookback_hours == Destructure(options, "lookback_hours", JsNumber(6))
  IN << <<"lookback_minutes",
          Destructure(options, "lookback_minutes", Times60(lookback_hours))>> >>

getSpoofingH3Data_params(options) ==
  << <<"lookback_minutes", Destructure(options, "lookback_minutes", JsNumber(1440))>>,
     <<"resolution", Destructure(options, "resolution", JsNumber(3))>>,
     <<"coordinates_source",
       Destructure(options, "coordinates_source", JsString("interpolated"))>> >>

ApiMethods == {"getJammingData", "getJammingCoverage", "getSpoofingData", "getSpoofingH3Data"}

ApiEndpoint(method) ==
  CASE method = "getJammingData" -> "/db-api/v1/jamming/agg"
    [] method = "getJammingCoverage" -> "/db-api/v1/jamming/coverage"
    [] method = "getSpoofingData" -> "/db-api/v1/spoofing/agg/geojson"
    [] method = "getSpoofingH3Data" -> "/db-api/v1/spoofing/h3_geojson"

ApiParams(method, options) ==
  CASE method = "getJammingData" -> getJammingData_params(options)
    [] method = "getJammingCoverage" -> getJammingCoverage_params(options)
    [] method = "getSpoofingData" -> getSpoofingData_params(options)
    [] method = "getSpoofingH3Data" -> getSpoofingH3Data_params(options)

\* seeded fault: a truthiness test, which also drops 0, false and ""
IsSent_truthy(v) ==
  /\ v \notin {JsNull, JsUndefined, JsNaN}
  /\ v \notin {JsNumber(0), JsBoolean(FALSE), JsString("")}

\* params[key] !== null && params[key] !== undefined
IsSent(v) == v # JsNull /\ v # JsUndefined

\* the search parameters _get appends, in order, each with its string form
RECURSIVE searchParams(_)
searchParams(params) ==
  IF params = <<>> THEN <<>>
  ELSE LET key == Head(params)[1]
           value == Head(params)[2]
       IN (IF IsSent(value) THEN << <<key, String(value)>> >> ELSE <<>>)
            \o searchParams(Tail(params))

\* the request _get hands to fetch
APIClient_get_request(endpoint, params) ==
  [url |-> [pathname |-> endpoint, searchParams |-> searchParams(params)],
   method |-> "GET",
   headers |-> [Accept |-> "application/json"]]

\* response.ok
ResponseOk(response) == response.status >= 200 /\ response.status <= 299

\* seeded fault: the status is not looked at
APIClient_get_settle_anyStatus(request, response) ==
  IF ~response.validJson
  THEN [thrown |-> [name |-> "SyntaxError"]]
  ELSE [value |-> [data |-> response.body,
                   metadata |-> [periodStart |-> response.periodStart,
                                 periodEnd |-> response.periodEnd,
                                 status |-> response.status,
                                 url |-> request.url]]]

\* what _get does with the response of its fetch
APIClient_get_settle(request, response) ==
  IF ~ResponseOk(response)
  THEN [thrown |-> [name |-> "Error",
                    message |-> "API request failed: " \o ToString(response.status)
                                  \o " " \o response.statusText]]
  ELSE IF ~response.validJson
  THEN [thrown |-> [name |-> "SyntaxError"]]
  ELSE [value |-> [data |-> response.body,
                   metadata |-> [periodStart |-> response.periodStart,
                                 periodEnd |-> response.periodEnd,
                                 status |-> response.status,
                                 url |-> request.url]]]

\* the options fields the four calls read, with values to draw for each
NumberField == {"lookback_hours", "n_obs_min", "max_n_bad", "lookback_minutes", "resolution"}
BooleanField == {"altitude_summed", "hours_summed", "grouped", "full_output",
                 "show_no_coverage"}
StringField == {"altitudes", "coordinates_source"}
FractionField == {"max_ratio_bad"}
OptionFields == NumberField \cup BooleanField \cup StringField \cup FractionField

FieldValues(k) ==
  {JsUndefined, JsNull} \cup
    (CASE k \in NumberField -> {JsNumber(0), JsNumber(12), JsNaN}
       [] k \in BooleanField -> {JsBoolean(FALSE), JsBoolean(TRUE)}
       [] k \in StringField -> {JsString(""), JsString("FL200")}
       [] k \in FractionField -> {JsFraction(Rat(0, 100)), JsFraction(Rat(10, 100))})

AnyValue == UNION { FieldValues(k) : k \in OptionFields }

\* the App's settings as JavaScript values (the fields the calls read)
BaseOptions ==
  "lookback_hours" :> JsNumber(DEFAULT_LOOKBACK_HOURS)
  @@ "altitudes" :> JsString("FL100-FL450")
  @@ "altitude_summed" :> JsBoolean(FALSE)
  @@ "hours_summed" :> JsBoolean(TRUE)
  @@ "n_obs_min" :> JsNumber(DEFAULT_N_OBS_MIN)
  @@ "grouped" :> JsBoolean(FALSE)
  @@ "full_output" :> JsBoolean(FALSE)
  @@ "max_ratio_bad" :> JsFraction(Rat(5, 100))
  @@ "max_n_bad" :> JsNumber(3)
  @@ "show_no_coverage" :> JsBoolean(FALSE)
  @@ "resolution" :> JsNumber(3)
  @@ "coordinates_source" :> JsString("interpolated")

\* options objects: the empty object or the App's settings, with up to
\* MaxDeviations fields set to other values (null and undefined included)
OptionsObjects ==
  { d @@ base :
      base \in {<<>>, BaseOptions},
      d \in UNION { { f \in [D -> AnyValue] : \A k \in D : f[k] \in FieldValues(k) } :
                      D \in { D \in SUBSET OptionFields : Cardinality(D) <= MaxDeviations } } }

HttpStatuses == {200, 204, 299, 300, 304, 404, 500, 199}

StatusText(status) ==
  CASE status = 200 -> "OK"
    [] status = 204 -> "No Content"
    [] status = 304 -> "Not Modified"
    [] status = 404 -> "Not Found"
    [] status = 500 -> "Internal Server Error"
    [] OTHER -> ""

HttpResponse(st, j, ps) ==
  [status |-> st, statusText |-> StatusText(st), validJson |-> j,
   body |-> IF j THEN FeatureCollection(<<Hex1>>) ELSE Null,
   periodStart |-> ps, periodEnd |-> JsNull]

HttpResponses ==
  { HttpResponse(st, TRUE, JsNull) : st \in HttpStatuses }
    \cup { HttpResponse(200, j, JsString("2025-01-01T00:00:00Z")) : j \in BOOLEAN }

InitApi ==
  /\ InitApp
  /\ Idle
  /\ arg \in { [method |-> m, options |-> o] : m \in ApiMethods, o \in OptionsObjects }
  /\ ret = Null

\* one of the four calls up to the await of its fetch
ApiCallStarts ==
  /\ fetches = <<>>
  /\ fetches' = <<[request |-> APIClient_get_request(ApiEndpoint(arg.method),
                                                     ApiParams(arg.method, arg.options)),
                   state |-> "pending"]>>
  /\ UNCHANGED <<appVars, mapVars, obsVars, opVars, proxyVars>>

\* the fetch resolves with a response
FetchResponds ==
  /\ \E i \in 1..Len(fetches) : \E response \in HttpResponses :
       /\ fetches[i].state = "pending"
       /\ fetches' = [fetches EXCEPT ![i].state = "responded"]
       /\ ret' = APIClient_get_settle(fetches[i].request, response)
                   @@ [response |-> response]
  /\ UNCHANGED <<appVars, mapVars, obsVars, arg, proxyVars>>

\* the fetch rejects (network failure): the error is logged and rethrown
FetchRejects ==
  /\ \E i \in 1..Len(fetches) :
       /\ fetches[i].state = "pending"
       /\ fetches' = [fetches EXCEPT ![i].state = "rejected"]
       /\ ret' = [thrown |-> [name |-> "TypeError"]]
  /\ UNCHANGED <<appVars, mapVars, obsVars, arg, proxyVars>>

NextApi ==
  \/ ApiCallStarts
  \/ FetchResponds
  \/ FetchRejects

SpecApi == InitApi /\ [][NextApi]_vars

----------------------------------------------------------------------------
(* Properties of the API client (checked under SpecApi) *)

\* the parameters each call maps, as <<parameter, options field>>
MappedParams(method) ==
  CASE method = "getJammingData" ->
         { <<k, k>> : k \in {"lookback_hours", "altitudes", "altitude_summed",
                             "hours_summed", "n_obs_min", "grouped", "full_output",
                             "max_ratio_bad", "max_n_bad"} }
    [] method = "getJammingCoverage" ->
         { <<k, k>> : k \in {"lookback_hours", "altitudes", "altitude_summed",
                             "show_no_coverage", "grouped"} }
           \cup { <<"min_count", "n_obs_min">> }
    [] method = "getSpoofingData" -> { <<"lookback_minutes", "lookback_minutes">> }
    [] method = "getSpoofingH3Data" ->
         { <<k, k>> : k \in {"lookback_minutes", "resolution", "coordinates_source"} }

\* the string form of each value drawn
StringForm(v) ==
  CASE v = JsNumber(0) -> "0"
    [] v = JsNumber(3) -> "3"
    [] v = JsNumber(5) -> "5"
    [] v = JsNumber(12) -> "12"
    [] v = JsNumber(24) -> "24"
    [] v = JsNaN -> "NaN"
    [] v = JsBoolean(FALSE) -> "false"
    [] v = JsBoolean(TRUE) -> "true"
    [] v = JsString("") -> ""
    [] v = JsString("FL200") -> "FL200"
    [] v = JsString("FL100-FL450") -> "FL100-FL450"
    [] v = JsString("interpolated") -> "interpolated"
    [] v = JsFraction(Rat(0, 100)) -> "0"
    [] v = JsFraction(Rat(5, 100)) -> "0.05"
    [] v = JsFraction(Rat(10, 100)) -> "0.1"

Requested == fetches # <<>>
SentParams == fetches[1].request.url.searchParams
SentKeys == { SentParams[i][1] : i \in 1..Len(SentParams) }
Occurrences(p) == { i \in 1..Len(SentParams) : SentParams[i][1] = p }

Given(k) == k \in DOMAIN arg.options /\ arg.options[k] # JsUndefined
SentValue(p) == SentParams[CHOOSE i \in Occurrences(p) : TRUE][2]

\* C11: whatever the options, a call puts in the URL no parameter whose value
\* is null or undefined, and puts every parameter it maps whose value is
\* neither (given in the options, or defaulted) exactly once, with the string
\* form of the value; nothing else is put in the URL.
C11_NullParamsNeverSent ==
  Requested =>
    /\ \A i \in 1..Len(SentParams) : SentParams[i][2] \notin {"null", "undefined"}
    /\ SentKeys \subseteq { m[1] : m \in MappedParams(arg.method) }
    /\ \A m \in MappedParams(arg.method) :
         LET p == m[1]
             k == m[2]
         IN /\ Cardinality(Occurrences(p)) <= 1
            /\ (Given(k) /\ arg.options[k] = JsNull) => p \notin SentKeys
            /\ (Given(k) /\ arg.options[k] # JsNull) =>
                  (p \in SentKeys /\ SentValue(p) = StringForm(arg.options[k]))
            /\ ~Given(k) => p \in SentKeys
    /\ (arg.method = "getSpoofingData" /\ ~Given("lookback_minutes")) =>
         SentValue("lookback_minutes") =
           (CASE ~Given("lookback_hours") -> "360"
              [] arg.options["lookback_hours"] = JsNull -> "0"
              [] arg.options["lookback_hours"] = JsNumber(0) -> "0"
              [] arg.options["lookback_hours"] = JsNumber(12) -> "720"
              [] arg.options["lookback_hours"] = JsNumber(24) -> "1440"
              [] arg.options["lookback_hours"] = JsNaN -> "NaN")

\* a coverage call whose n_obs_min is 0 (sent as min_count=0) and whose
\* altitudes is null (left out)
C11_Witness ==
  /\ Requested
  /\ arg.method = "getJammingCoverage"
  /\ "altitudes" \in DOMAIN arg.options /\ arg.options["altitudes"] = JsNull
  /\ "n_obs_min" \in DOMAIN arg.options /\ arg.options["n_obs_min"] = JsNumber(0)
  /\ "altitudes" \notin SentKeys
  /\ \E i \in 1..Len(SentParams) : SentParams[i] = <<"min_count", "0">>

Settled == ret # Null
Responded == Settled /\ "response" \in DOMAIN ret

\* C12: a call makes exactly one HTTP attempt, whatever its outcome; when the
\* response status is outside 200..299 the call throws an error whose message
\* carries the status code and the status text, and returns nothing (no body,
\* no metadata); a response in the range with a JSON body is returned with
\* its status.
C12_SingleAttemptAndRequestError ==
  /\ Len(fetches) <= 1
  /\ Settled =>
       /\ Len(fetches) = 1
       /\ fetches[1].state # "pending"
       /\ fetches[1].request.method = "GET"
       /\ ("value" \in DOMAIN ret) # ("thrown" \in DOMAIN ret)
  /\ (Responded /\ (ret.response.status < 200 \/ ret.response.status > 299)) =>
       /\ "value" \notin DOMAIN ret
       /\ "thrown" \in DOMAIN ret
       /\ ret.thrown.message =
            (CASE ret.response.status = 199 -> "API request failed: 199 "
               [] ret.response.status = 300 -> "API request failed: 300 "
               [] ret.response.status = 304 -> "API request failed: 304 Not Modified"
               [] ret.response.status = 404 -> "API request failed: 404 Not Found"
               [] ret.response.status = 500 ->
                    "API request failed: 500 Internal Server Error")
  /\ (Responded /\ ret.response.status >= 200 /\ ret.response.status <= 299
        /\ ret.response.validJson) =>
       /\ "value" \in DOMAIN ret
       /\ ret.value.data = ret.response.body
       /\ ret.value.metadata.status = ret.response.status
       /\ ret.value.metadata.url = fetches[1].request.url

\* a call answered 404: one attempt made, the error thrown
C12_Witness ==
  /\ Responded
  /\ ret.response.status = 404
  /\ "thrown" \in DOMAIN ret
  /\ Len(fetches) = 1
  /\ fetches[1].state = "responded"

----------------------------------------------------------------------------
(* The proxy process (src/proxy-server.js): loading the secrets, the      *)
(* request handler and proxyRequest (SpecProxy)                           *)

MaxEnvLines == 2        \* longest .env file drawn
MaxRequests == 2        \* client requests received in a run

PORT == 3333
TARGET_API == [protocol |-> "https:", hostname |-> "gpswise.aero"]

\* A line of the .env file is a sequence of tokens: " " is white space, "="
\* and "#" are themselves, any other token is a run of other characters.
RECURSIVE trimStart(_)
trimStart(tokens) ==
  IF tokens # <<>> /\ Head(tokens) = " " THEN trimStart(Tail(tokens)) ELSE tokens

RECURSIVE trimEnd(_)
trimEnd(tokens) ==
  IF tokens # <<>> /\ tokens[Len(tokens)] = " "
  THEN trimEnd(SubSeq(tokens, 1, Len(tokens) - 1)) ELSE tokens

trim(tokens) == trimEnd(trimStart(tokens))

RECURSIVE join(_)
join(tokens) == IF tokens = <<>> THEN "" ELSE Head(tokens) \o join(Tail(tokens))

\* indexOf('='): 0 when there is none (positions count from 1 here)
indexOfEquals(tokens) ==
  IF \E i \in 1..Len(tokens) : tokens[i] = "="
  THEN CHOOSE i \in 1..Len(tokens) :
         tokens[i] = "=" /\ \A j \in 1..(i - 1) : tokens[j] # "="
  ELSE 0

\* the loop of loadEnv over the lines, later assignments overwriting earlier
RECURSIVE parseEnv(_, _)
parseEnv(lines, env) ==
  IF lines = <<>> THEN env
  ELSE LET trimmed == trim(Head(lines))
           idx == indexOfEquals(trimmed)
       IN IF trimmed = <<>> \/ Head(trimmed) = "#" \/ idx = 0
          THEN parseEnv(Tail(lines), env)
          ELSE LET key == join(trim(SubSeq(trimmed, 1, idx - 1)))
                   value == join(trim(SubSeq(trimmed, idx + 1, Len(trimmed))))
               IN parseEnv(Tail(lines), (key :> value) @@ env)

\* seeded fault: only the presence of the two keys is required
hasSecrets_present(env) == "API_KEY" \in DOMAIN env /\ "CLIENT_ID" \in DOMAIN env

\* !(!env.API_KEY || !env.CLIENT_ID)
hasSecrets(env) ==
  /\ "API_KEY" \in DOMAIN env /\ env["API_KEY"] # ""
  /\ "CLIENT_ID" \in DOMAIN env /\ env["CLIENT_ID"] # ""

\* loadEnv: the environment, or process.exit(1)
loadEnv(file) ==
  IF file = Null THEN [exit |-> 1]
  ELSE LET env == parseEnv(file.lines, <<>>)
       IN IF hasSecrets(env) THEN [env |-> env] ELSE [exit |-> 1]

\* ---- request handling ----

CorsHeaders ==
  "Access-Control-Allow-Origin" :> "*"
  @@ "Access-Control-Allow-Methods" :> "GET, POST, OPTIONS"
  @@ "Access-Control-Allow-Headers" :> "Content-Type"

JsonContentType == "Content-Type" :> "application/json"

\* req.url is [path, search]: the path split at "/" (so "/" is <<"">> and
\* "/db-api/v1/x" is <<"db-api", "v1", "x">>) and the query string with its "?"
IsRoot(url) == url.path = <<"">> /\ url.search = ""
IsHealth(url) == url.path = <<"health">> /\ url.search = ""

\* req.url.startsWith('/db-api/')
startsWithDbApi(url) == Len(url.path) >= 2 /\ url.path[1] = "db-api"

\* the pathname `new URL(targetUrl)` yields: "." and ".." segments resolved
RECURSIVE removeDotSegments(_, _)
removeDotSegments(segments, out) ==
  IF segments = <<>> THEN (IF out = <<>> THEN <<"">> ELSE out)
  ELSE LET seg == Head(segments)
           last == Len(segments) = 1
           popped == IF out = <<>> THEN <<>> ELSE SubSeq(out, 1, Len(out) - 1)
       IN IF seg = ".."
          THEN removeDotSegments(Tail(segments), IF last THEN Append(popped, "") ELSE popped)
          ELSE IF seg = "."
          THEN removeDotSegments(Tail(segments), IF last THEN Append(out, "") ELSE out)
          ELSE removeDotSegments(Tail(segments), Append(out, seg))

\* the headers of the https.request options
upstreamHeaders(env, req) ==
  "X-API-Key" :> env["API_KEY"]
  @@ "X-Client-ID" :> env["CLIENT_ID"]
  @@ "Accept" :> "application/json"
  @@ "User-Agent" :> "SkAI-Proxy/1.0"

\* the request proxyRequest makes for targetUrl = TARGET_API + req.url
proxyRequest_options(env, req) ==
  [hostname |-> TARGET_API.hostname,
   path |-> removeDotSegments(req.url.path, <<>>),
   search |-> req.url.search,
   method |-> req.method,
   headers |-> upstreamHeaders(env, req),
   body |-> IF req.method # "GET" /\ req.method # "HEAD" THEN req.body ELSE ""]

\* seeded fault: a header is mirrored whenever the upstream sent it
mirrored_present(apiRes, name) ==
  IF name \in DOMAIN apiRes.headers THEN name :> apiRes.headers[name] ELSE <<>>

\* if (apiRes.headers[name]) res.setHeader(name, apiRes.headers[name])
mirrored(apiRes, name) ==
  IF name \in DOMAIN apiRes.headers /\ apiRes.headers[name] # ""
  THEN name :> apiRes.headers[name] ELSE <<>>

\* the response written when the upstream answers
proxyRequest_onResponse(apiRes) ==
  [statusCode |-> apiRes.statusCode,
   headers |-> CorsHeaders @@ JsonContentType
                 @@ mirrored(apiRes, "x-period-start")
                 @@ mirrored(apiRes, "x-period-end"),
   body |-> apiRes.body]

\* seeded fault: the error handler only rejects
proxyRequest_onError_silent(error) == <<>>

\* the response written when the upstream request emits 'error'
proxyRequest_onError(error) ==
  << [statusCode |-> 502,
      headers |-> ("Access-Control-Allow-Origin" :> "*") @@ JsonContentType,
      body |-> [error |-> "Failed to connect to SkAI API", message |-> error]] >>

\* the answers the handler gives without the upstream
preflightResponse ==
  [statusCode |-> 204,
   headers |-> CorsHeaders @@ ("Access-Control-Max-Age" :> "86400"),
   body |-> ""]

healthResponse ==
  [statusCode |-> 200,
   headers |-> JsonContentType,
   body |-> [status |-> "ok", service |-> "SkAI API Proxy", target |-> TARGET_API]]

notFoundResponse ==
  [statusCode |-> 404,
   headers |-> JsonContentType,
   body |-> [error |-> "Not found",
             message |-> "This proxy only handles /db-api/* paths"]]

\* the request handler up to its await: the response it ends, or the
\* upstream request it makes
handler(env, req) ==
  IF req.method = "OPTIONS" THEN [responses |-> <<preflightResponse>>, upstream |-> Null]
  ELSE IF IsRoot(req.url) \/ IsHealth(req.url)
  THEN [responses |-> <<healthResponse>>, upstream |-> Null]
  ELSE IF ~startsWithDbApi(req.url)
  THEN [responses |-> <<notFoundResponse>>, upstream |-> Null]
  ELSE [responses |-> <<>>, upstream |-> proxyRequest_options(env, req)]

\* ---- inputs ----

EnvLines ==
  { <<"API_KEY", "=", "k1">>,
    <<"CLIENT_ID", "=", "c1">>,
    <<" ", "API_KEY", " ", "=", " ", "k2", " ">>,
    <<"API_KEY", "=">>,
    <<"CLIENT_ID", "=", " ">>,
    <<"#", "API_KEY", "=", "k1">>,
    <<>>,
    <<"CLIENT_ID">>,
    <<"CLIENT_ID", "=", "c", "=", "2">>,
    <<"OTHER", "=", "x">> }

\* the file with its lines, or Null when fs.existsSync says there is none
EnvFiles == { [lines |-> l] : l \in SeqsUpTo(EnvLines, MaxEnvLines) } \cup {Null}

Url(path, search) == [path |-> path, search |-> search]
Request(method, url, headers, body) ==
  [method |-> method, url |-> url, headers |-> headers, body |-> body]

ClientHeaders == "content-type" :> "application/json" @@ "accept-language" :> "en"

ClientRequests ==
  { Request("GET", Url(<<"">>, ""), <<>>, ""),
    Request("GET", Url(<<"health">>, ""), <<>>, ""),
    Request("GET", Url(<<"health">>, "?x=1"), <<>>, ""),
    Request("GET", Url(<<"other", "path">>, ""), <<>>, ""),
    Request("POST", Url(<<"other", "path">>, ""), ClientHeaders, "{}"),
    Request("GET", Url(<<"db-api">>, ""), <<>>, ""),
    Request("GET", Url(<<"db-apix", "v1">>, ""), <<>>, ""),
    Request("GET", Url(<<"db-api", "v1", "x">>, "?lookback_hours=24"), ClientHeaders, ""),
    Request("HEAD", Url(<<"db-api", "v1", "x">>, ""), <<>>, ""),
    Request("POST", Url(<<"db-api", "v1", "x">>, ""), ClientHeaders, "{}"),
    Request("GET", Url(<<"db-api", "..", "admin">>, ""), <<>>, ""),
    Request("OPTIONS", Url(<<"db-api", "v1", "x">>, ""), <<>>, ""),
    Request("OPTIONS", Url(<<"other">>, ""), <<>>, "") }

UpstreamResponses ==
  { [statusCode |-> 200,
     headers |-> "x-period-start" :> "t1" @@ "x-period-end" :> "t2"
                   @@ "content-type" :> "application/json",
     body |-> "features"],
    [statusCode |-> 200, headers |-> "content-type" :> "application/json",
     body |-> "features"],
    [statusCode |-> 404,
     headers |-> "x-period-start" :> "t1" @@ "content-type" :> "text/html",
     body |-> "not found"],
    [statusCode |-> 500,
     headers |-> "x-period-start" :> "" @@ "x-period-end" :> "t2"
                   @@ "set-cookie" :> "s=1",
     body |-> "error"] }

UpstreamErrors == {"ECONNREFUSED", "ENOTFOUND"}

InitProxy ==
  /\ InitApp
  /\ arg = Null
  /\ ret = Null
  /\ fetches = <<>>
  /\ envFile \in EnvFiles
  /\ ENV = Null
  /\ proxyProcess = "starting"
  /\ exchanges = <<>>

\* const ENV = loadEnv()
LoadEnv ==
  /\ proxyProcess = "starting"
  /\ LET r == loadEnv(envFile)
     IN IF "exit" \in DOMAIN r
        THEN proxyProcess' = "exited" /\ UNCHANGED ENV
        ELSE proxyProcess' = "loaded" /\ ENV' = r.env
  /\ UNCHANGED <<appVars, mapVars, obsVars, opVars, netVars, envFile, exchanges>>

\* server.listen(PORT) succeeds
Listen ==
  /\ proxyProcess = "loaded"
  /\ proxyProcess' = "listening"
  /\ UNCHANGED <<appVars, mapVars, obsVars, opVars, netVars, envFile, ENV, exchanges>>

\* a client request arrives: the handler runs up to its first await
RequestArrives ==
  /\ proxyProcess = "listening"
  /\ Len(exchanges) < MaxRequests
  /\ \E req \in ClientRequests :
       LET h == handler(ENV, req)
       IN exchanges' = Append(exchanges,
                              [req |-> req, upstream |-> h.upstream,
                               responses |-> h.responses,
                               state |-> IF h.upstream = Null THEN "done" ELSE "forwarded",
                               apiRes |-> Null, error |-> ""])
  /\ UNCHANGED <<appVars, mapVars, obsVars, opVars, netVars, envFile, ENV, proxyProcess>>

\* the upstream answers a forwarded request
UpstreamResponds ==
  /\ proxyProcess = "listening"
  /\ \E i \in 1..Len(exchanges) : \E apiRes \in UpstreamResponses :
       /\ exchanges[i].state = "forwarded"
       /\ exchanges' = [exchanges EXCEPT
                          ![i].responses = Append(@, proxyRequest_onResponse(apiRes)),
                          ![i].apiRes = apiRes,
                          ![i].state = "done"]
  /\ UNCHANGED <<appVars, mapVars, obsVars, opVars, netVars, envFile, ENV, proxyProcess>>

\* the upstream request emits 'error' before any response: the promise is
\* rejected and the handler's catch swallows the rejection
UpstreamFails ==
  /\ proxyProcess = "listening"
  /\ \E i \in 1..Len(exchanges) : \E error \in UpstreamErrors :
       /\ exchanges[i].state = "forwarded"
       /\ exchanges' = [exchanges EXCEPT
                          ![i].responses = @ \o proxyRequest_onError(error),
                          ![i].error = error,
                          ![i].state = "failed"]
  /\ UNCHANGED <<appVars, mapVars, obsVars, opVars, netVars, envFile, ENV, proxyProcess>>

\* SIGINT / SIGTERM
Shutdown ==
  /\ proxyProcess = "listening"
  /\ proxyProcess' = "exited"
  /\ UNCHANGED <<appVars, mapVars, obsVars, opVars, netVars, envFile, ENV, exchanges>>

NextProxy ==
  \/ LoadEnv
  \/ Listen
  \/ RequestArrives
  \/ UpstreamResponds
  \/ UpstreamFails
  \/ Shutdown

SpecProxy == InitProxy /\ [][NextProxy]_vars

----------------------------------------------------------------------------
(* Properties of the proxy (checked under SpecProxy) *)

Exchanges == { exchanges[i] : i \in 1..Len(exchanges) }
Forwarded == { e \in Exchanges : e.upstream # Null }

\* the path lies under /db-api/
UnderDbApi(path) == Len(path) >= 2 /\ path[1] = "db-api"

IsPreflight(req) == req.method = "OPTIONS"
IsHealthPath(req) ==
  req.url.search = "" /\ (req.url.path = <<"">> \/ req.url.path = <<"health">>)

\* C13: a request whose path is not under /db-api/ (and that is neither a
\* health path nor a preflight) is answered 404 without any upstream request,
\* and every path requested from the upstream lies under /db-api/.
C13_OnlyDbApiReachesUpstream ==
  /\ \A e \in Exchanges :
       (~UnderDbApi(e.req.url.path) /\ ~IsPreflight(e.req) /\ ~IsHealthPath(e.req)) =>
          /\ e.upstream = Null
          /\ Len(e.responses) = 1
          /\ e.responses[1].statusCode = 404
  /\ \A e \in Forwarded :
       /\ UnderDbApi(e.req.url.path)
       /\ UnderDbApi(e.upstream.path)

\* C14: every forwarded request goes to the fixed upstream host with both
\* secrets attached, the client's method, query string and body unchanged,
\* and every header of the client's request still on it.
C14_ForwardedUnchanged ==
  \A e \in Forwarded :
    /\ e.upstream.hostname = "gpswise.aero"
    /\ {"X-API-Key", "X-Client-ID"} \subseteq DOMAIN e.upstream.headers
    /\ e.upstream.headers["X-API-Key"] = ENV["API_KEY"]
    /\ e.upstream.headers["X-Client-ID"] = ENV["CLIENT_ID"]
    /\ e.upstream.method = e.req.method
    /\ e.upstream.search = e.req.url.search
    /\ e.upstream.body = e.req.body
    /\ \A h \in DOMAIN e.req.headers :
         h \in DOMAIN e.upstream.headers /\ e.upstream.headers[h] = e.req.headers[h]

PeriodHeaders == {"x-period-start", "x-period-end"}
Answered == { e \in Forwarded : e.apiRes # Null }

\* what holds of every answered forwarded request whatever the reading of
\* "present": one response, the upstream's status and body, and no header
\* beyond the CORS headers, the fixed content type and the period headers
RelayedVerbatim(e) ==
  /\ Len(e.responses) = 1
  /\ e.responses[1].statusCode = e.apiRes.statusCode
  /\ e.responses[1].body = e.apiRes.body
  /\ DOMAIN e.responses[1].headers \subseteq
       {"Access-Control-Allow-Origin", "Access-Control-Allow-Methods",
        "Access-Control-Allow-Headers", "Content-Type"} \cup PeriodHeaders
  /\ e.responses[1].headers["Content-Type"] = "application/json"
  /\ \A h \in PeriodHeaders \cap DOMAIN e.responses[1].headers :
       h \in DOMAIN e.apiRes.headers /\ e.responses[1].headers[h] = e.apiRes.headers[h]

C17_CorsOnEveryResponse ==
  \A e \in Exchanges :
    /\ \A i \in 1..Len(e.responses) :
         \A h \in DOMAIN CorsHeaders :
           h \in DOMAIN e.responses[i].headers /\ e.responses[i].headers[h] = CorsHeaders[h]
    /\ IsPreflight(e.req) =>
         /\ e.upstream = Null
         /\ Len(e.responses) = 1
         /\ e.responses[1].statusCode = 204

\* the lines of the file that assign key k: not blank, not a comment, with
\* an "=" and k (trimmed) before the first one
Assigns(line, k) ==
  LET t == trim(line)
  IN /\ t # <<>>
     /\ t[1] # "#"
     /\ \E i \in 1..Len(t) :
          /\ t[i] = "="
          /\ \A j \in 1..(i - 1) : t[j] # "="
          /\ join(trim(SubSeq(t, 1, i - 1))) = k

\* the file gives key k a non-empty value: the last line assigning k has
\* something other than white space after its first "="
GivesSecret(file, k) ==
  /\ file # Null
  /\ \E i \in 1..Len(file.lines) :
       /\ Assigns(file.lines[i], k)
       /\ \A j \in (i + 1)..Len(file.lines) : ~Assigns(file.lines[j], k)
       /\ LET t == trim(file.lines[i])
              eq == CHOOSE n \in 1..Len(t) : t[n] = "=" /\ \A m \in 1..(n - 1) : t[m] # "="
          IN \E n \in (eq + 1)..Len(t) : t[n] # " "

Serving == proxyProcess \in {"loaded", "listening"} \/ exchanges # <<>>

\* C18: the process gets past the loading of the secrets only when the file
\* exists and gives API_KEY and CLIENT_ID non-empty values; otherwise it
\* exits having handled no request.  Whenever it listens or has handled a
\* request ENV holds both secrets, non-empty, and every forwarded request
\* carries them.
C18_NeverServesWithoutSecrets ==
  /\ Serving =>
       /\ GivesSecret(envFile, "API_KEY") /\ GivesSecret(envFile, "CLIENT_ID")
       /\ ENV # Null
       /\ {"API_KEY", "CLIENT_ID"} \subseteq DOMAIN ENV
       /\ ENV["API_KEY"] # "" /\ ENV["CLIENT_ID"] # ""
       /\ \A e \in Forwarded :
            /\ e.upstream.headers["X-API-Key"] = ENV["API_KEY"]
            /\ e.upstream.headers["X-Client-ID"] = ENV["CLIENT_ID"]
  /\ ~(GivesSecret(envFile, "API_KEY") /\ GivesSecret(envFile, "CLIENT_ID")) =>
       /\ proxyProcess \in {"starting", "exited"}
       /\ exchanges = <<>>
       /\ ENV = Null

\* a request forwarded with the key of a line written with white space
\* around it, by a process started from a two-line file
C18_Witness ==
  /\ proxyProcess = "listening"
  /\ Len(envFile.lines) = 2
  /\ \E e \in Forwarded : e.upstream.headers["X-API-Key"] = "k2"

----------------------------------------------------------------------------
(* App.setupEventListeners: the 'change' listener of each control, and *)
(* the requests a refresh builds from the settings record              *)
(* (checked under SpecSettings)                                        *)

MaxChanges == 3      \* setting events followed from the constructed record

\* parseInt(e.target.value) of a slider: a non-empty string of decimal
\* digits, given as its digits
RECURSIVE parseInt(_)
parseInt(digits) ==
  IF Len(digits) = 1 THEN digits[1]
  ELSE parseInt(SubSeq(digits, 1, Len(digits) - 1)) * 10 + digits[Len(digits)]

allSegments == {"during", "before-during", "during-after", "before-during-after"}
allLevels == {"zero", "low", "high"}

\* the checked boxes as stored: none or all checked is the empty filter
checkedFilter(checked, all) ==
  IF Cardinality(checked) = 0 \/ Cardinality(checked) = Cardinality(all)
  THEN {} ELSE checked

\* seeded fault: choosing a data source resets the rest of the record
assign_reset(settings, field, value) ==
  IF field = "dataSource" THEN [DefaultSettings EXCEPT ![field] = value]
  ELSE [settings EXCEPT ![field] = value]

\* this.currentSettings.<field> = <value>
assign(settings, field, value) == [settings EXCEPT ![field] = value]

\* a 'change' listener: store the value, then debouncedRefresh().  The
\* event is kept in arg.
listener(control, event, field, value) ==
  /\ phase # "constructed"
  /\ burst < MaxChanges
  /\ currentSettings' = assign(currentSettings, field, value)
  /\ refreshDebounceTimer' = debouncedRefresh(refreshDebounceTimer)
  /\ burst' = burst + 1
  /\ arg' = [control |-> control, event |-> event]
  /\ UNCHANGED <<netVars, proxyVars, mapVars, isLoading, autoRefreshInterval, phase,
                 inflight, currentJsonData, statsPanel, jsonTree, tableRows,
                 tableSortColumn, tableSortDirection, refreshButtonDisabled,
                 sinceChange, debounceCalls, snapshot, shown, missed, ret>>

\* the values the modelled controls offer
DataSourceOptions == {"jamming/agg", "jamming/coverage", "spoofing/agg", "spoofing/h3"}
AltitudeOptions == {"FL100-FL450", "FL000-FL100"}
CoordsSourceOptions == {"interpolated", "original"}
HoursSlider == {<<6>>, <<2, 4>>}
NObsMinSlider == {<<5>>, <<1, 0>>}
MaxRatioBadSlider == {<<5>>, <<2, 0>>}
MaxNBadSlider == {<<3>>, <<7>>}
H3ResolutionSlider == {<<3>>, <<5>>}
H3TimeDiffSlider == {<<6, 0, 0>>, <<9, 0>>}
SegmentChoices == {{}, {"during"}, allSegments}
LevelChoices == {{}, {"low", "high"}, allLevels}

OnDataSource ==
  \E v \in DataSourceOptions : listener("data-source", [value |-> v], "dataSource", v)
OnLookbackHours ==
  \E v \in HoursSlider :
    listener("lookback-hours", [value |-> v], "lookback_hours", parseInt(v))
OnAltitudeFilter ==
  \E v \in AltitudeOptions : listener("altitude-filter", [value |-> v], "altitudes", v)
OnShowNoCoverage ==
  \E c \in BOOLEAN :
    listener("toggle-show-no-coverage", [checked |-> c], "show_no_coverage", c)
OnAltitudeSummed ==
  \E c \in BOOLEAN :
    listener("toggle-altitude-summed", [checked |-> c], "altitude_summed", c)
OnHoursSummed ==
  \E c \in BOOLEAN : listener("toggle-hours-summed", [checked |-> c], "hours_summed", c)
OnNObsMin ==
  \E v \in NObsMinSlider : listener("n-obs-min", [value |-> v], "n_obs_min", parseInt(v))
OnGrouped ==
  \E c \in BOOLEAN : listener("toggle-grouped", [checked |-> c], "grouped", c)
OnMaxRatioBad ==
  \E v \in MaxRatioBadSlider :
    listener("max-ratio-bad", [value |-> v], "max_ratio_bad", Rat(parseInt(v), 100))
OnMaxNBad ==
  \E v \in MaxNBadSlider : listener("max-n-bad", [value |-> v], "max_n_bad", parseInt(v))
OnFullOutput ==
  \E c \in BOOLEAN : listener("toggle-full-output", [checked |-> c], "full_output", c)
OnH3Resolution ==
  \E v \in H3ResolutionSlider :
    listener("h3-resolution", [value |-> v], "resolution", parseInt(v))
OnH3CoordsSource ==
  \E v \in CoordsSourceOptions :
    listener("h3-coords-source", [value |-> v], "coordinates_source", v)
OnH3TimeDiffBefore ==
  \E v \in H3TimeDiffSlider :
    listener("h3-time-diff-before", [value |-> v], "max_time_diff_before_sec", parseInt(v))
OnH3TimeDiffAfter ==
  \E v \in H3TimeDiffSlider :
    listener("h3-time-diff-after", [value |-> v], "max_time_diff_after_sec", parseInt(v))
OnBothSpoofingLayers ==
  \E c \in BOOLEAN :
    listener("toggle-both-spoofing-layers", [checked |-> c], "showBothSpoofingLayers", c)
OnSegmentCheckbox ==
  \E checked \in SegmentChoices :
    listener("segment-checkbox", [checked |-> checked], "spoofingSegments",
             checkedFilter(checked, allSegments))
OnSeverityCheckbox ==
  \E checked \in LevelChoices :
    listener("severity-checkbox", [checked |-> checked], "jammingSeverityLevels",
             checkedFilter(checked, allLevels))

\* a refresh reads the record wholesale and hands it to the layer, which
\* issues its API calls: the requests are kept in ret, with the record
\* they were built from
RequestsIssued ==
  /\ phase # "constructed"
  /\ ret' = [settings |-> currentSettings,
             requests |-> NewLoad("manual", currentSettings).requests]
  /\ UNCHANGED <<netVars, proxyVars, appVars, mapVars, obsVars, arg>>

NextSettings ==
  \/ AppInit
  \/ OnDataSource
  \/ OnLookbackHours
  \/ OnAltitudeFilter
  \/ OnShowNoCoverage
  \/ OnAltitudeSummed
  \/ OnHoursSummed
  \/ OnNObsMin
  \/ OnGrouped
  \/ OnMaxRatioBad
  \/ OnMaxNBad
  \/ OnFullOutput
  \/ OnH3Resolution
  \/ OnH3CoordsSource
  \/ OnH3TimeDiffBefore
  \/ OnH3TimeDiffAfter
  \/ OnBothSpoofingLayers
  \/ OnSegmentCheckbox
  \/ OnSeverityCheckbox
  \/ RequestsIssued

SpecSettings == Init /\ [][NextSettings]_vars

\* the fields whose controls updateControlsVisibility hides for a source
H3Fields == {"resolution", "coordinates_source", "max_time_diff_before_sec",
             "max_time_diff_after_sec"}
hiddenFor(dataSource) ==
  IF IsSpoofing(dataSource)
  THEN {"n_obs_min", "altitudes", "show_no_coverage", "grouped", "altitude_summed",
        "hours_summed", "full_output", "max_ratio_bad", "max_n_bad",
        "jammingSeverityLevels"}
       \cup (IF dataSource = "spoofing/h3" THEN {"spoofingSegments"} ELSE H3Fields)
  ELSE IF dataSource = "jamming/coverage"
  THEN {"hours_summed", "full_output", "max_ratio_bad", "max_n_bad",
        "showBothSpoofingLayers", "spoofingSegments", "jammingSeverityLevels"}
       \cup H3Fields
  ELSE {"show_no_coverage", "showBothSpoofingLayers", "spoofingSegments"} \cup H3Fields

----------------------------------------------------------------------------
(* Properties of the settings record (checked under SpecSettings) *)

\* the field each control names
FieldOf(control) ==
  CASE control = "data-source" -> "dataSource"
    [] control = "lookback-hours" -> "lookback_hours"
    [] control = "altitude-filter" -> "altitudes"
    [] control = "toggle-show-no-coverage" -> "show_no_coverage"
    [] control = "toggle-altitude-summed" -> "altitude_summed"
    [] control = "toggle-hours-summed" -> "hours_summed"
    [] control = "n-obs-min" -> "n_obs_min"
    [] control = "toggle-grouped" -> "grouped"
    [] control = "max-ratio-bad" -> "max_ratio_bad"
    [] control = "max-n-bad" -> "max_n_bad"
    [] control = "toggle-full-output" -> "full_output"
    [] control = "h3-resolution" -> "resolution"
    [] control = "h3-coords-source" -> "coordinates_source"
    [] control = "h3-time-diff-before" -> "max_time_diff_before_sec"
    [] control = "h3-time-diff-after" -> "max_time_diff_after_sec"
    [] control = "toggle-both-spoofing-layers" -> "showBothSpoofingLayers"
    [] control = "segment-checkbox" -> "spoofingSegments"
    [] control = "severity-checkbox" -> "jammingSeverityLevels"

\* the settings field a query parameter is taken from
FieldOfParam(key) ==
  CASE key = "min_count" -> "n_obs_min"
    [] key = "lookback_minutes" -> "lookback_hours"
    [] OTHER -> key

\* the record with the given fields put back to their constructed values
Cleared(settings, fields) ==
  [f \in DOMAIN settings |-> IF f \in fields THEN DefaultSettings[f] ELSE settings[f]]

RequestsFor(settings) == NewLoad("manual", settings).requests

\* the requests carry no parameter of the given fields and do not depend
\* on their values
LeftOut(issued, fields) ==
  /\ \A c \in DOMAIN issued.requests : \A key \in DOMAIN issued.requests[c].query :
       FieldOfParam(key) \notin fields
  /\ issued.requests = RequestsFor(Cleared(issued.settings, fields))

\* a step that is a setting event changes the one field its control names,
\* and every field of the record is still there
OneFieldPerEvent ==
  arg' # arg \/ currentSettings' # currentSettings =>
    /\ DOMAIN currentSettings' = DOMAIN currentSettings
    /\ \A f \in DOMAIN currentSettings :
         currentSettings'[f] # currentSettings[f] => f = FieldOf(arg'.control)

\* the fields irrelevant to the requests of a record: those hidden for its
\* source, except that with both spoofing layers shown the fields of
\* either spoofing source count
Irrelevant(settings) ==
  IF IsSpoofing(settings.dataSource) /\ settings.showBothSpoofingLayers
  THEN hiddenFor("spoofing/agg") \cap hiddenFor("spoofing/h3")
  ELSE hiddenFor(settings.dataSource)

----------------------------------------------------------------------------
(* Responses that arrive after the settings changed (checked under Spec) *)

\* what the upstream returns for the requests built from a settings record
FetchedWith(settings) ==
  IF IsSpoofing(settings.dataSource)
  THEN IF settings.showBothSpoofingLayers
       THEN FeatureCollection(Upstream(getSpoofingData(settings)).features
                              \o Upstream(getSpoofingH3Data(settings)).features)
       ELSE Upstream(getSpoofingData(settings))
  ELSE Upstream(getJammingData(settings))

\* the map source of the layer a settings record selects
SourceFor(settings, jamming, spoofing) ==
  IF IsSpoofing(settings.dataSource) THEN spoofing.source ELSE jamming.source

\* this step is the successful completion of the refresh in flight
RefreshSucceeds ==
  /\ isLoading /\ ~isLoading'
  /\ inflight # <<>> /\ inflight' = <<>>
  /\ missed' = missed

\* C20: there is no cancellation or sequence check: when the settings
\* changed while a refresh was in flight, its response, fetched with the
\* old settings, is still written to the map source and to the stored
\* result when it arrives, although it no longer matches the settings.
C20_StaleResponseStillWritten ==
  [][RefreshSucceeds /\ inflight[1].settings # currentSettings =>
       /\ currentJsonData' = FetchedWith(inflight[1].settings)
       /\ SourceFor(inflight[1].settings, jammingLayer', spoofingLayer')
            = FetchedWith(inflight[1].settings)
       /\ jsonTree' = currentJsonData'
       /\ shown' = inflight[1].settings
       /\ currentSettings' = currentSettings]_vars

\* the debounce refresh of the last change was dropped by the refresh in
\* flight, which was started before that change and has since succeeded
C20_Witness ==
  /\ ~isLoading
  /\ inflight = <<>>
  /\ missed = {"dropped"}
  /\ shown # Null
  /\ shown # currentSettings
  /\ shown.dataSource = "jamming/agg"
  /\ currentSettings.dataSource = "spoofing/agg"
  /\ currentJsonData = FetchedWith(shown)
  /\ currentJsonData # FetchedWith(currentSettings)
  /\ jammingLayer.source = currentJsonData

----------------------------------------------------------------------------
(* Order and failure handling of the jamming-layer operations *)
(* (checked under SpecOps)                                     *)

\* the features of fs whose index is in keep, in the order of fs
RECURSIVE Picked(_, _)
Picked(fs, keep) ==
  IF fs = <<>> THEN <<>>
  ELSE Picked(SubSeq(fs, 1, Len(fs) - 1), keep)
         \o (IF Len(fs) \in keep THEN <<fs[Len(fs)]>> ELSE <<>>)

\* out is fs with some features left out and none moved
KeepsOrder(fs, out) == \E keep \in SUBSET (1..Len(fs)) : out = Picked(fs, keep)

\* C21: the features keep the order the API returned them in through
\* severity filtering and through union-by-severity, except where a union
\* collapses several features into one; with union enabled and every
\* severity group of size at most 1 the output sequence is the input
\* sequence.
C21_OrderPreserved ==
  /\ FilterApplied => KeepsOrder(arg.geojson.features, ret.value.features)
  /\ ( /\ UnionApplied
       /\ arg.turfLoaded
       /\ \A b \in Buckets : Len(SeverityGroup(arg.geojson.features, b)) <= 1 )
     => ret.value.features = arg.geojson.features

\* the buckets whose group holds several features and whose union throws
FailedBuckets ==
  { b \in arg.unionThrows : Len(SeverityGroup(arg.geojson.features, b)) > 1 }

\* the part of the output that came from bucket b: the output is emitted
\* bucket by bucket, a merged feature carrying its bucket as severity_level
EmittedFor(output, b) ==
  LET from(f) == IF "severity_level" \in DOMAIN f.properties
                 THEN f.properties.severity_level = b
                 ELSE InBucket(RatioOf(f), b)
  IN SelectSeq(output, from)

\* C22: when the geometric union throws for a severity bucket, that bucket
\* contributes all of its original unmerged features, every other bucket is
\* still merged or passed through as normal, and unionBySeverity returns a
\* collection: no feature of the input is lost.
C22_UnionFailureFallsBack ==
  (UnionApplied /\ arg.turfLoaded /\ FailedBuckets # {}) =>
    LET input == arg.geojson.features
        output == ret.value.features
    IN /\ ret.value.type = "FeatureCollection"
       /\ \A b \in FailedBuckets : EmittedFor(output, b) = SeverityGroup(input, b)
       /\ \A b \in Buckets \ FailedBuckets : BucketEmission(input, output, b)
       /\ output = EmittedFor(output, "zero") \o EmittedFor(output, "low")
                     \o EmittedFor(output, "high")
       /\ \A i \in 1..Len(input) :
            \/ \E j \in 1..Len(output) : output[j] = input[i]
            \/ \E j \in 1..Len(output) :
                 /\ "unioned" \in DOMAIN output[j].properties
                 /\ input[i].geometry \subseteq output[j].geometry

C22_Witness ==
  /\ UnionApplied /\ arg.turfLoaded
  /\ arg.unionThrows = {"high"}
  /\ Len(SeverityGroup(arg.geojson.features, "high")) = 2
  /\ Len(SeverityGroup(arg.geojson.features, "low")) = 2
  /\ Len(ret.value.features) = 3
  /\ "unioned" \in DOMAIN ret.value.features[1].properties
  /\ ret.value.features[2] = arg.geojson.features[2]
  /\ ret.value.features[3] = arg.geojson.features[4]

\* the buckets of a load whose group holds several features and whose union
\* throws
FailedLoadBuckets(features) ==
  { b \in arg.unionThrows : Len(SeverityGroup(features, b)) > 1 }

CoverageLoaded == /\ arg.op = "loadData" /\ ret # Null
                  /\ arg.dataSource = "jamming/coverage" /\ arg.response.ok

\* C24: for the coverage source the response is stored and rendered exactly
\* as returned, neither severity-filtered nor merged, whatever the severity
\* filter and union settings, and its stats are the feature count with the
\* other two fields zero; the aggregate source passes through filtering and
\* union.
C24_CoverageAsReturned ==
  /\ CoverageLoaded =>
       /\ ret.value.data = arg.response.data
       /\ jammingLayer.currentData = arg.response.data
       /\ jammingLayer.source = arg.response.data
       /\ ret.value.stats = [totalCells |-> Len(arg.response.data.features),
                             uniqueAircraft |-> 0,
                             highSeverityCells |-> 0]
  /\ AggLoaded =>
       LET kept(f) == \/ arg.severityLevels = {}
                      \/ \E b \in arg.severityLevels : InBucket(RatioOf(f), b)
           filtered == SelectSeq(arg.response.data.features, kept)
       IN /\ ~arg.unionEnabled => ret.value.data.features = filtered
          /\ arg.unionEnabled /\ filtered # <<>> =>
               \A b \in Buckets \ FailedLoadBuckets(filtered) :
                 BucketEmission(filtered, ret.value.data.features, b)
          /\ jammingLayer.source = ret.value.data

C24_Witness ==
  /\ CoverageLoaded
  /\ arg.severityLevels = {"high"}
  /\ arg.unionEnabled
  /\ Len(arg.response.data.features) = 3
  /\ \E i \in 1..3 : RatLt(RatioOf(arg.response.data.features[i]), Rat(1, 10))
  /\ Len(SeverityGroup(arg.response.data.features, "low")) = 2
  /\ ret.value.stats.totalCells = 3
  /\ jammingLayer.source.features = arg.response.data.features

Classified == arg.op = "classify" /\ ret # Null

\* the colour-scale entry of each bucket
ScaleIndex(b) == CASE b = "zero" -> 1 [] b = "low" -> 2 [] b = "high" -> 3

----------------------------------------------------------------------------
(* The refresh cycle, its fetches completing (checked under SpecFair) *)

\* the coordinator without its clock: settings change, refreshes are
\* requested by the button and by the auto-refresh interval, fetches
\* resolve or reject
NextCycle ==
  \/ AppInit
  \/ SetDataSource
  \/ SetShowBothSpoofingLayers
  \/ ManualRefresh
  \/ AutoRefreshTick
  \/ FetchSucceeds
  \/ FetchFails

\* every fetch issued is eventually answered or fails
SpecFair == Init /\ [][NextCycle]_vars /\ WF_vars(FetchSucceeds \/ FetchFails)

\* this step ends the refresh in flight, by success or by failure
RefreshEnds == inflight # <<>> /\ inflight' = <<>>

\* C23: every refresh that starts ends, on success and on failure alike,
\* with the in-flight flag cleared and the refresh action re-enabled,
\* provided its fetches complete; a failed refresh returns the coordinator
\* to idle, where a later refresh request is accepted rather than dropped.
C23_RefreshAlwaysEnds ==
  /\ isLoading ~> (~isLoading /\ ~refreshButtonDisabled /\ inflight = <<>>)
  /\ [][ /\ RefreshEnds => (~isLoading' /\ ~refreshButtonDisabled')
         /\ (RefreshEnds /\ missed' # missed) =>
               ("failed" \in missed' /\ inflight' = <<>> /\ ~isLoading')
         /\ Len(inflight') > Len(inflight) => (~isLoading /\ isLoading')
       ]_vars
  /\ []((phase # "constructed" /\ ~isLoading) => ENABLED (ManualRefresh /\ isLoading'))
  /\ [](isLoading <=> inflight # <<>>)
  /\ [](isLoading <=> refreshButtonDisabled)

C23_Witness ==
  /\ "failed" \in missed
  /\ isLoading /\ refreshButtonDisabled
  /\ Len(inflight) = 1
  /\ inflight[1].origin = "manual"

----------------------------------------------------------------------------
(* Immediate refreshes and the debounce timer (checked under Spec) *)

\* this step starts a refresh
RefreshStarts == Len(inflight') > Len(inflight)

\* C26: a manual refresh (or an auto-refresh tick) starts a refresh
\* immediately and does not cancel a pending debounce timer: after a
\* setting change, a manual refresh that completes before the 2000 ms
\* deadline is followed by a second refresh, fired by the still-pending
\* timer.
C26_ManualRefreshKeepsTimer ==
  [][ /\ (RefreshStarts /\ inflight'[Len(inflight')].origin \in {"manual", "auto"}) =>
           /\ refreshDebounceTimer' = refreshDebounceTimer
           /\ inflight'[Len(inflight')].settings = currentSettings
           /\ isLoading'
      /\ (refreshDebounceTimer # NoTimer /\ refreshDebounceTimer' = NoTimer) =>
           /\ refreshDebounceTimer = 0
           /\ debounceCalls' = debounceCalls + 1
           /\ ~isLoading =>
                /\ RefreshStarts
                /\ inflight'[Len(inflight')].origin = "debounce"
                /\ inflight'[Len(inflight')].settings = currentSettings
    ]_vars

\* the result of the current settings is already stored (no refresh was
\* dropped or failed since the change) and the timer of that change has
\* just fired a second refresh for the same settings
C26_Witness ==
  /\ burst = 1 /\ sinceChange = 2000 /\ debounceCalls = 1
  /\ missed = {}
  /\ shown = currentSettings
  /\ currentSettings # DefaultSettings
  /\ isLoading
  /\ Len(inflight) = 1
  /\ inflight[1].origin = "debounce"
  /\ inflight[1].settings = currentSettings

----------------------------------------------------------------------------
(* MapManager: the two layer groups under loads and visibility toggles *)
(* (checked under SpecLayers)                                          *)

\* seeded fault: the toggle always acts on the jamming group
toggleJammingLayer_jammingOnly(visible) ==
  /\ jammingLayer' = [jammingLayer EXCEPT !.visible = visible]
  /\ UNCHANGED spoofingLayer

\* MapManager.toggleJammingLayer: setVisibility on the layer of the current
\* type
toggleJammingLayer(visible) ==
  IF currentLayerType = "jamming"
  THEN /\ jammingLayer' = [jammingLayer EXCEPT !.visible = visible]
       /\ UNCHANGED spoofingLayer
  ELSE IF currentLayerType = "spoofing"
  THEN /\ spoofingLayer' = [spoofingLayer EXCEPT !.visible = visible]
       /\ UNCHANGED jammingLayer
  ELSE UNCHANGED <<jammingLayer, spoofingLayer>>

\* a caller switches the current layer on or off (the layers exist once
\* MapManager.initialize has run)
ToggleLayer ==
  /\ phase # "constructed"
  /\ \E visible \in BOOLEAN : toggleJammingLayer(visible)
  /\ UNCHANGED <<netVars, proxyVars, appVars, currentLayerType, obsVars, opVars>>

NextLayers ==
  \/ AppInit
  \/ SetDataSource
  \/ ManualRefresh
  \/ FetchSucceeds
  \/ FetchFails
  \/ ToggleLayer

SpecLayers == Init /\ [][NextLayers]_vars

\* the layer family of a data source
Family(dataSource) == IF IsSpoofing(dataSource) THEN "spoofing" ELSE "jamming"

\* C27: after any sequence of loads and visibility toggles the jamming
\* group and the spoofing group are never both visible, the recorded
\* current layer type is the family of the data source of the most recently
\* started load, and a visibility toggle only affects the group of the
\* current layer type.
C27_OneGroupVisible ==
  /\ [](phase # "constructed" => ~(jammingLayer.visible /\ spoofingLayer.visible))
  /\ [][ /\ RefreshStarts =>
              currentLayerType' = Family(inflight'[Len(inflight')].dataSource)
         /\ ~RefreshStarts => currentLayerType' = currentLayerType
         /\ (phase # "constructed" /\ ~RefreshStarts) =>
              /\ currentLayerType = "jamming" =>
                   spoofingLayer'.visible = spoofingLayer.visible
              /\ currentLayerType = "spoofing" =>
                   jammingLayer'.visible = jammingLayer.visible
       ]_vars

\* the spoofing group was switched off by a toggle, then a jamming load
\* switched groups and the jamming group was switched off as well
C27_Witness ==
  /\ phase # "constructed"
  /\ currentLayerType = "jamming"
  /\ shown # Null /\ shown.dataSource = "spoofing/agg"
  /\ isLoading /\ inflight[1].dataSource = "jamming/agg"
  /\ ~jammingLayer.visible
  /\ ~spoofingLayer.visible
  /\ spoofingLayer.source # EmptyCollection

----------------------------------------------------------------------------
(* The table sort under clicks and refreshes (checked under SpecTable) *)

\* the sortable headers of the table rendered for a collection: id and
\* every property key of its features
Columns(data) ==
  IF data = Null THEN {}
  ELSE {"id"} \cup UNION { DOMAIN data.features[i].properties : i \in 1..Len(data.features) }

\* a click on one of the rendered headers; the column is kept in arg
ClickHeader ==
  \E column \in Columns(currentJsonData) :
    /\ sortTable(column)
    /\ arg' = [column |-> column]
    /\ UNCHANGED ret

NextTable ==
  \/ AppInit
  \/ SetDataSource
  \/ ManualRefresh
  \/ FetchSucceeds
  \/ FetchFails
  \/ ClickHeader

SpecTable == Init /\ [][NextTable]_vars

\* rows are in the order of the column and direction
Sorted(rows, column, direction) ==
  \A i, j \in 1..Len(rows) : i < j => Compare(rows[i], rows[j], column, direction) <= 0

\* this step is a click on a header
Clicked == arg' # arg \/ tableSortColumn' # tableSortColumn
             \/ tableSortDirection' # tableSortDirection

\* C28: sorting the table, for any column and any number of clicks, never
\* changes the stored result's feature order or the map source and never
\* starts a fetch; a click on the column already sorted toggles the
\* direction, a click on another column selects it with direction asc, and
\* the sort column and direction survive later refreshes.
C28_SortLeavesDataAlone ==
  /\ [](tableSortColumn \in Columns(currentJsonData) =>
          ENABLED (ClickHeader /\ tableSortColumn' = tableSortColumn
                               /\ tableSortDirection' # tableSortDirection))
  /\ [][ /\ Clicked =>
           /\ UNCHANGED <<currentJsonData, jsonTree, statsPanel, jammingLayer,
                          spoofingLayer, currentLayerType, inflight, isLoading,
                          fetches, currentSettings>>
           /\ tableSortColumn' = arg'.column
           /\ tableSortColumn = arg'.column =>
                tableSortDirection' # tableSortDirection
           /\ tableSortColumn # arg'.column => tableSortDirection' = "asc"
           /\ tableSortDirection' \in {"asc", "desc"}
           /\ SameRows(tableRows', currentJsonData.features)
           /\ Sorted(tableRows', tableSortColumn', tableSortDirection')
      /\ ~Clicked =>
           /\ UNCHANGED <<tableSortColumn, tableSortDirection>>
           /\ (currentJsonData' # currentJsonData /\ tableSortColumn # NoColumn) =>
                /\ SameRows(tableRows', currentJsonData'.features)
                /\ Sorted(tableRows', tableSortColumn, tableSortDirection)
    ]_vars

\* sorted by n_unique_ac descending before a refresh, and still after it
C28_Witness ==
  /\ tableSortColumn = "n_unique_ac"
  /\ tableSortDirection = "desc"
  /\ arg # Null /\ arg.column = "n_unique_ac"
  /\ ~isLoading
  /\ "failed" \in missed
  /\ shown # Null /\ shown.dataSource = "jamming/agg"
  /\ burst >= 2
  /\ Len(tableRows) = 3
  /\ tableRows # currentJsonData.features
  /\ tableRows[1].properties.n_unique_ac = 5
  /\ jammingLayer.source = currentJsonData

----------------------------------------------------------------------------
(* SpecRender: one load of either layer on drawn responses, its result   *)
(* then shown in the stats panel and the table                           *)

\* the responses a spoofing load with these options can receive, by call
SpoofResponses(options) ==
  { g \in [CallsOf(options.dataSource, options.showBothSpoofingLayers) ->
             { OkResponse(c, "url") : c \in EventCollections \cup CellCollections }] :
      \A call \in DOMAIN g : g[call].data \in SpoofUpstream(call) }

\* a spoofing load with the response of each call it issues
SpoofLoadArgs ==
  UNION { { [op |-> "loadSpoofing", options |-> o, responses |-> f] :
              f \in SpoofResponses(o) } : o \in SpoofOptions }

InitRender ==
  /\ InitApp
  /\ Idle
  /\ arg \in LoadArgs \cup SpoofLoadArgs
  /\ ret = Null

\* SpoofingLayer.loadData(options), every call resolving
OpLoadSpoofing ==
  /\ arg.op = "loadSpoofing" /\ ret = Null
  /\ LET started == SpoofingLayer_loadData_start(NewSpoofingLayer, arg.options)
         r == SpoofingLayer_loadData(started, arg.options.dataSource = "spoofing/h3",
                                     arg.options.showBothSpoofingLayers, arg.responses)
     IN /\ spoofingLayer' = r.layer
        /\ ret' = [value |-> r.result]
  /\ UNCHANGED <<netVars, proxyVars, appVars, currentLayerType, jammingLayer, obsVars, arg>>

\* refreshData after its await: the result goes to the stats panel, the
\* JSON tree and the table
DisplayResult ==
  /\ ret # Null /\ "value" \in DOMAIN ret
  /\ statsPanel = Null
  /\ refreshData_resume(Null, ret.value)
  /\ UNCHANGED <<netVars, proxyVars, currentSettings, isLoading, refreshDebounceTimer,
                 autoRefreshInterval, phase, inflight, tableSortColumn,
                 tableSortDirection, refreshButtonDisabled, mapVars, obsVars, opVars>>

NextRender ==
  \/ OpLoadData
  \/ OpLoadSpoofing
  \/ DisplayResult

SpecRender == InitRender /\ [][NextRender]_vars

\* the load shown is a combined spoofing load
CombinedShown == arg.op = "loadSpoofing" /\ arg.options.showBothSpoofingLayers

\* the map source the load shown wrote
RenderedSource ==
  IF arg.op = "loadSpoofing" THEN spoofingLayer.source ELSE jammingLayer.source

\* C30: for every load other than the combined spoofing mode the statistics
\* are computed from the collection actually rendered: stats.totalCells is
\* the number of features written to the map source and listed in the table.
C30_StatsOfRenderedCollection ==
  (statsPanel # Null /\ ~CombinedShown) =>
     /\ currentJsonData = RenderedSource
     /\ statsPanel.stats.totalCells = Len(RenderedSource.features)
     /\ statsPanel.stats.totalCells = Len(tableRows)
     /\ SameRows(tableRows, RenderedSource.features)

\* an aggregate load whose filter and union left fewer features than the
\* response held, shown with its count
C30_Witness ==
  /\ statsPanel # Null
  /\ arg.op = "loadData" /\ arg.dataSource = "jamming/agg"
  /\ arg.unionEnabled
  /\ Len(jammingLayer.source.features) = 2
  /\ Len(arg.response.data.features) = 4
  /\ statsPanel.stats.totalCells = 2
  /\ Len(tableRows) = 2

====
